---- MODULE Spec2Model ----
(***************************************************************************)
(* Candidate extraction, deduplication and semantic review pipeline of the *)
(* accessibility audit (core/axe_runner.py, core/rag_reviewer.py).         *)
(*                                                                         *)
(* Text the code inspects character by character (rule tags, role/name     *)
(* guesses, inner text, diagnostic messages) is a sequence of one-character *)
(* strings; text the code only stores, compares or copies is a string.     *)
(***************************************************************************)
EXTENDS Integers, Sequences, FiniteSets, TLC

VARIABLES
    axe_payload,    \* raw scan result returned by axe.run (axe_runner.py:145)
    pc,             \* position of run_axe_on_url / review
    mk,             \* position of the must-review loops (177-181), flattened
    pr,             \* index of the passes rule under inspection (223)
    pn,             \* index of the node under inspection in that rule (231/273)
    seen,           \* set of (rule id, selector) keys (174)
    candidates,     \* in-memory candidates list (173)
    probes,         \* history: heuristic outcome of every passes node inspected
    fs,             \* files of the output directory
    env,            \* process environment read by rag_reviewer.py
    template,       \* text of prompts/semantic_review_template.txt
    wcag_lib,       \* documents of the knowledge base directory
    rv,             \* locals of review(): loaded candidates, techniques, i, results, skip flag
    serviceCalls,   \* number of requests sent to the external verdict service
    promptLog,      \* history: the build_prompt calls in order, with inputs and result
    passes_run,     \* number of review passes started
    lastCall,       \* history: the latest run_llm call, its mode, outcome and result
    edits,          \* number of changes made to the environment or the template file
    page            \* the browser page: what it does on navigation, the goto calls made

vars == <<axe_payload, pc, mk, pr, pn, seen, candidates, probes, fs,
          env, template, wcag_lib, rv, serviceCalls, promptLog, passes_run, lastCall,
          edits, page>>

scanVars == <<axe_payload, mk, pr, pn, seen, candidates, probes, page>>
reviewVars == <<env, template, wcag_lib, rv, serviceCalls, promptLog, passes_run, lastCall,
                edits>>

---------------------------------------------------------------------------
(* Bounds of the model *)

\* total number of nodes of a generated scan result
MaxNodes == 3
\* number of tags of a rule, where the tags vary
MaxTags == 3
\* candidates of a candidates artifact handed to review
MaxCands == 2
\* changes of the environment or the template file during one review pass
MaxEdits == 1
\* tokens of a response text handed to the verdict adapter
MaxResponse == 5
\* milliseconds a fast page takes to load, and a short timeout_ms
MaxDelay == 3
\* largest coordinate and size, in pixels, of a bounding box and of the page image
MaxCoord == 3

\* timeout_ms: int = 30000
DefaultTimeout == 30000
\* review passes run on one output directory
MaxPasses == 2

(* Program constants *)

\* r.get("nodes", [])[:30]
NodeLimit == 30

\* Python's None, for a value that is otherwise a string or text
None == "<None>"
\* Python's None, for a value that is otherwise a dict
NoneRec == [none |-> TRUE]

---------------------------------------------------------------------------
(* Python string operations on sequences of characters *)

Min(a, b) == IF a <= b THEN a ELSE b

UpperCase == <<"A","B","C","D","E","F","G","H","I","J","K","L","M",
               "N","O","P","Q","R","S","T","U","V","W","X","Y","Z">>
LowerCase == <<"a","b","c","d","e","f","g","h","i","j","k","l","m",
               "n","o","p","q","r","s","t","u","v","w","x","y","z">>

Digits == {"0","1","2","3","4","5","6","7","8","9"}

Whitespace == {" ", "\n", "\t"}

LowerChar(ch) ==
    IF \E k \in 1..26 : UpperCase[k] = ch
    THEN LowerCase[CHOOSE k \in 1..26 : UpperCase[k] = ch]
    ELSE ch

\* str.lower()
str_lower(s) == [k \in 1..Len(s) |-> LowerChar(s[k])]

\* str.strip(chars): drop the leading and trailing characters that are in chars
str_strip(s, chars) ==
    LET lo == CHOOSE k \in 1..Len(s) :
                  s[k] \notin chars /\ \A j \in 1..(k - 1) : s[j] \in chars
        hi == CHOOSE k \in 1..Len(s) :
                  s[k] \notin chars /\ \A j \in (k + 1)..Len(s) : s[j] \in chars
    IN IF \A k \in 1..Len(s) : s[k] \in chars THEN <<>> ELSE SubSeq(s, lo, hi)

\* str.find(sub) + 1: the first position where sub occurs in s, 0 when it does not
str_find(s, sub) ==
    LET hits == {k \in 1..(Len(s) - Len(sub) + 1) : SubSeq(s, k, k + Len(sub) - 1) = sub}
    IN IF hits = {} THEN 0 ELSE CHOOSE k \in hits : \A j \in hits : k <= j

\* sub in s
str_contains(s, sub) == str_find(s, sub) # 0

\* s[:n]
str_prefix(s, n) == SubSeq(s, 1, Min(n, Len(s)))

---------------------------------------------------------------------------
(* Finding normalizer: success criteria of a rule and the candidate topic *)

\* re.match(r"wcag(\d)(\d)(\d)$", s): the three groups, or <<>> when s does not
\* match.  $ matches at the end of s and before a newline that ends s.
re_match_wcag(s) ==
    IF /\ Len(s) \in {7, 8}
       /\ SubSeq(s, 1, 4) = <<"w","c","a","g">>
       /\ s[5] \in Digits /\ s[6] \in Digits /\ s[7] \in Digits
       /\ (Len(s) = 8 => s[8] = "\n")
    THEN <<s[5], s[6], s[7]>>
    ELSE <<>>

\* ".".join(m.groups())
join_dots(g) == <<g[1], ".", g[2], ".", g[3]>>

\* mutant: the tag is matched as written, without .lower()
RECURSIVE _extract_scs_as_written(_)
_extract_scs_as_written(tags) ==
    IF tags = <<>> THEN <<>>
    ELSE LET m == re_match_wcag(Head(tags))
         IN (IF m # <<>> THEN <<join_dots(m)>> ELSE <<>>)
            \o _extract_scs_as_written(Tail(tags))

RECURSIVE _extract_scs(_)
_extract_scs(tags) ==
    IF tags = <<>> THEN <<>>
    ELSE LET m == re_match_wcag(str_lower(Head(tags)))
         IN (IF m # <<>> THEN <<join_dots(m)>> ELSE <<>>) \o _extract_scs(Tail(tags))

_primary_sc(scs) == IF scs # <<>> THEN scs[1] ELSE None

BEST_PRACTICE == <<"B","E","S","T","_","P","R","A","C","T","I","C","E">>

\* topic = f"SC-{_primary_sc(scs)}" if scs else "BEST_PRACTICE"
topic_of(scs) == IF scs # <<>> THEN <<"S","C","-">> \o _primary_sc(scs) ELSE BEST_PRACTICE

---------------------------------------------------------------------------
(* Diagnostic messages of a node *)

\* x or y, for text
py_or(x, y) == IF x # <<>> THEN x ELSE y

\* f"{mid}: {msg}".strip(": ").strip()
msg_line(it) ==
    LET mid == py_or(it.id, <<>>)
        msg == py_or(py_or(it.message, it.data), <<>>)
    IN str_strip(str_strip(mid \o <<":", " ">> \o msg, {":", " "}), Whitespace)

_msgs(items) == [k \in 1..Len(items) |-> msg_line(items[k])]

---------------------------------------------------------------------------
(* The scanner's result: buckets of rules, each with nodes *)

Buckets == <<"violations", "incomplete", "passes">>
MustBuckets == <<"violations", "incomplete">>

MustIds == {"image-alt"}
\* rule ids of the passes bucket: the two the scan inspects and one it does not
PassIds == {"image-alt", "link-name", "region"}

\* target lists of a node: missing or empty, one selector, several selectors
Targets == {<<>>, <<"#a">>, <<"#b", "#z">>}

RuleTags(id) ==
    CASE id = "image-alt" -> << <<"w","c","a","g","2","a">>, <<"w","c","a","g","1","1","1">>,
                                <<"w","c","a","g","4","1","2">> >>
      [] id = "link-name" -> << <<"c","a","t",".","k","e","y","b","o","a","r","d">>,
                                <<"W","C","A","G","2","4","4">>, <<"w","c","a","g","4","1","2">> >>
      [] OTHER -> << <<"c","a","t",".","k","e","y","b","o","a","r","d">>,
                     <<"b","e","s","t","-","p","r","a","c","t","i","c","e">> >>

\* the check results of a node, as axe reports them
NodeChecks(ni) ==
    IF ni % 2 = 1
    THEN << [id |-> <<"a","l","t">>, message |-> <<"o","k">>, data |-> <<>>] >>
    ELSE << [id |-> <<>>, message |-> <<>>, data |-> <<"f","i","x">>] >>

MkNode(bucket, ri, ni, target) ==
    [ target |-> target,
      html |-> [b |-> bucket, r |-> ri, n |-> ni],
      failureSummary |-> IF bucket = "passes" THEN None ELSE "Fix any of the following",
      any |-> NodeChecks(ni),
      all |-> <<>>,
      none |-> IF bucket = "passes" THEN <<>> ELSE NodeChecks(ni + 1) ]

MkRule(bucket, ri, shape) ==
    [ id |-> shape.id,
      tags |-> shape.tags,
      help |-> "help:" \o shape.id,
      helpUrl |-> "https://dequeuniversity.com/rules/axe/4.7/" \o shape.id,
      impact |-> IF bucket = "passes" THEN None ELSE "serious",
      nodes |-> [ni \in 1..Len(shape.targets) |-> MkNode(bucket, ri, ni, shape.targets[ni])] ]

MkRules(bucket, shapes) == [ri \in 1..Len(shapes) |-> MkRule(bucket, ri, shapes[ri])]

\* the rules over ids with k nodes
RulesOfSize(ids, k) ==
    { [id |-> id, tags |-> RuleTags(id), targets |-> t] :
        id \in ids \ {"region"}, t \in [1..k -> Targets] }
    \cup { [id |-> id, tags |-> RuleTags(id), targets |-> [j \in 1..k |-> <<"#a">>]] :
             id \in ids \cap {"region"} }

\* the lists of rules with n nodes in all, each rule with at least one node
MustShapes[n \in 0..MaxNodes] ==
    IF n = 0 THEN {<<>>}
    ELSE UNION { { <<r>> \o rest : r \in RulesOfSize(MustIds, k), rest \in MustShapes[n - k] }
                 : k \in 1..n }

PassShapes[n \in 0..MaxNodes] ==
    IF n = 0 THEN {<<>>}
    ELSE UNION { { <<r>> \o rest : r \in RulesOfSize(PassIds, k), rest \in PassShapes[n - k] }
                 : k \in 1..n }

MkPayload(v, i, p) ==
    [ violations |-> MkRules("violations", v),
      incomplete |-> MkRules("incomplete", i),
      passes |-> MkRules("passes", p) ]

\* the numbers of nodes of the three buckets of a scan result
PayloadSizes ==
    { t \in (0..MaxNodes) \X (0..MaxNodes) \X (0..MaxNodes) : t[1] + t[2] + t[3] <= MaxNodes }

\* a passes rule with more nodes than the code inspects
LongShape(id) ==
    [id |-> id, tags |-> RuleTags(id), targets |-> [k \in 1..(NodeLimit + 1) |-> <<"#c">>]]

LongPayloads == { MkPayload(<<>>, <<>>, <<LongShape(id)>>) : id \in {"image-alt", "link-name"} }

---------------------------------------------------------------------------
(* DOM/visual context provider: what the page answers for a selector *)

\* an accessibility-tree node as the browser reports it
Leaf(name) == [fields |-> [role |-> "text", name |-> name, focused |-> "false"]]

\* an element the selector resolves to.  ex: "ok", "none" (the selector matches
\* nothing), "raise" (the page rejects the selector)
E_none == [ex |-> "none"]
E_raise == [ex |-> "raise"]

\* <div><img alt="Logo"></div>
E_logo ==
    [ ex |-> "ok", role |-> <<>>, tag |-> <<"i","m","g">>, aria_label |-> <<>>,
      alt |-> <<"L","o","g","o">>, labelledby |-> <<>>, innerText |-> <<>>,
      in_a_or_button |-> FALSE,
      container_text |-> <<" ","H","o","m","e"," ","L","o","g","o"," ","N","e","w","s"," ">>,
      attrs |-> [alt |-> "Logo", src |-> "logo.svg"],
      snap |-> [fields |-> [role |-> "img", name |-> "Logo", level |-> "0"]],
      box |-> [x |-> 1, y |-> 0, width |-> 3, height |-> 2] ]

\* <div><img alt="Team PHOTO.JPG"></div>
E_photo ==
    [ ex |-> "ok", role |-> <<>>, tag |-> <<"i","m","g">>, aria_label |-> <<>>,
      alt |-> <<"T","e","a","m"," ","P","H","O","T","O",".","J","P","G">>,
      labelledby |-> <<>>, innerText |-> <<>>,
      in_a_or_button |-> FALSE,
      container_text |-> <<>>,
      attrs |-> [alt |-> "Team PHOTO.JPG"],
      snap |-> NoneRec,
      box |-> NoneRec ]

\* <button><img alt="Logo"></button>
E_button_img ==
    [ ex |-> "ok", role |-> <<>>, tag |-> <<"i","m","g">>, aria_label |-> <<>>,
      alt |-> <<"L","o","g","o">>, labelledby |-> <<>>, innerText |-> <<>>,
      in_a_or_button |-> TRUE,
      container_text |-> <<>>,
      attrs |-> [alt |-> "Logo"],
      snap |-> [fields |-> [role |-> "img", name |-> "Logo"], children |-> <<>>],
      box |-> [x |-> 8, y |-> 8, width |-> 4, height |-> 4] ]

\* <a href="/more"> Click Here </a>
E_click ==
    [ ex |-> "ok", role |-> <<>>, tag |-> <<"a">>, aria_label |-> <<>>,
      alt |-> <<>>, labelledby |-> <<>>,
      innerText |-> <<" ","C","l","i","c","k"," ","H","e","r","e"," ">>,
      in_a_or_button |-> TRUE,
      container_text |-> <<" ","C","l","i","c","k"," ","H","e","r","e"," ">>,
      attrs |-> [href |-> "/more"],
      snap |-> [fields |-> [role |-> "link", name |-> "Click Here"],
                children |-> << Leaf("1"), Leaf("2"), Leaf("3"), Leaf("4"), Leaf("5") >>],
      box |-> [x |-> 0, y |-> 0, width |-> 0, height |-> 0] ]

\* <a href="/contact">Contact</a>
E_contact ==
    [ ex |-> "ok", role |-> <<>>, tag |-> <<"a">>, aria_label |-> <<>>,
      alt |-> <<>>, labelledby |-> <<>>,
      innerText |-> <<"C","o","n","t","a","c","t">>,
      in_a_or_button |-> TRUE,
      container_text |-> <<"C","o","n","t","a","c","t">>,
      attrs |-> [href |-> "/contact"],
      snap |-> [fields |-> [role |-> "link", name |-> "Contact"]],
      box |-> [x |-> 2, y |-> 2, width |-> 5, height |-> 1] ]

\* The page under scan: the elements a selector may resolve to when a loop queries
\* it.  "#a" may be missing, stale or rejected; "#b" and "#c" always resolve.
MustElements(sel) ==
    IF sel = "#a" THEN {E_none, E_raise, E_logo} ELSE {E_logo}
ImageElements(sel) ==
    IF sel = "#a" THEN {E_none, E_raise, E_logo, E_button_img}
    ELSE IF sel = "#b" THEN {E_photo}
    ELSE {E_logo, E_photo}
LinkElements(sel) ==
    IF sel = "#a" THEN {E_none, E_raise, E_click}
    ELSE IF sel = "#b" THEN {E_contact}
    ELSE {E_contact, E_click}

\* size of the full-page screenshot
PageImage == [width |-> 10, height |-> 10]

Max(a, b) == IF a >= b THEN a ELSE b

SnapKeys == {"role", "name", "value", "description"}

\* trim(node) of get_accessibility_snapshot
RECURSIVE trim(_)
trim(node) ==
    LET kept == [k \in (DOMAIN node.fields) \cap SnapKeys |-> node.fields[k]]
    IN IF "children" \in DOMAIN node
       THEN [ fields |-> kept,
              children |-> [k \in 1..Min(4, Len(node.children)) |-> trim(node.children[k])] ]
       ELSE [ fields |-> kept ]

\* the dict {}
EmptyDict == [fields |-> <<>>]

\* return trim(snap) or {}, and {} on any exception
get_accessibility_snapshot(e) ==
    IF e.ex # "ok" THEN EmptyDict
    ELSE IF e.snap = NoneRec THEN EmptyDict
    ELSE trim(e.snap)

get_nearby_text(e) ==
    IF e.ex # "ok" THEN <<>>
    ELSE str_prefix(str_strip(e.container_text, Whitespace), 500)

Sep == <<" ", "EMDASH", " ">>

get_role_name_guess(e) ==
    IF e.ex # "ok" THEN <<>>
    ELSE LET role == py_or(e.role, str_lower(e.tag))
             name == py_or(e.aria_label, py_or(e.alt, py_or(e.labelledby, e.innerText)))
         IN str_prefix(role \o Sep \o str_strip(name, Whitespace), 200)

\* the outcome of a provider call that is not wrapped in try/except
Returned(v) == [raised |-> FALSE, val |-> v]
Raised == [raised |-> TRUE]

\* page.query_selector(sel): the page rejects the selector, or tells whether an
\* element was found
query_selector(e) == IF e.ex = "raise" THEN Raised ELSE Returned(e.ex = "ok")

\* page.eval_on_selector(sel, ...): raises when the selector matches nothing
eval_attrs(e) == IF e.ex = "ok" THEN Returned(e.attrs) ELSE Raised
eval_closest_a_button(e) == IF e.ex = "ok" THEN Returned(e.in_a_or_button) ELSE Raised

\* page.inner_text(sel)
inner_text(e) == IF e.ex = "ok" THEN Returned(e.innerText) ELSE Raised

\* attrs = page.eval_on_selector(...) if page.query_selector(selector) else {}
candidate_attrs(e) ==
    IF query_selector(e).raised THEN Raised
    ELSE IF query_selector(e).val THEN eval_attrs(e) ELSE Returned(<<>>)

shot_path(rid, sel) == [dir |-> "screenshots", rule |-> rid, sel |-> sel]

crop_element_screenshot(e, out_path) ==
    IF e.ex # "ok" THEN NoneRec
    ELSE IF e.box = NoneRec THEN NoneRec
    ELSE LET x == Max(0, e.box.x - 2)
             y == Max(0, e.box.y - 2)
             w == Min(e.box.width + 4, PageImage.width - x)
             h == Min(e.box.height + 4, PageImage.height - y)
         IN IF w <= 0 \/ h <= 0 THEN NoneRec ELSE out_path

---------------------------------------------------------------------------
(* run_axe_on_url: node log and candidate selection *)

Url == "https://example.org/"

\* (n.get("target") or [""])[0]
selector_of(n) == Head(IF n.target = <<>> THEN <<"">> ELSE n.target)

RECURSIVE Concat(_)
Concat(ss) == IF ss = <<>> THEN <<>> ELSE Head(ss) \o Concat(Tail(ss))

\* for r in axe_payload.get(bucket, []): for n in r.get("nodes", [])
BucketEntries(payload, bucket) ==
    Concat([ri \in 1..Len(payload[bucket]) |->
              [ni \in 1..Len(payload[bucket][ri].nodes) |->
                 [bucket |-> bucket, rule |-> payload[bucket][ri],
                  node |-> payload[bucket][ri].nodes[ni]]]])

\* for bucket in ["violations", "incomplete"]: ...
MustEntries(payload) ==
    BucketEntries(payload, "violations") \o BucketEntries(payload, "incomplete")

\* one record of axe_nodes.jsonl
NodeRecord(ent) ==
    [ page_url |-> Url,
      bucket |-> ent.bucket,
      rule_id |-> ent.rule.id,
      help |-> ent.rule.help,
      helpUrl |-> ent.rule.helpUrl,
      impact |-> ent.rule.impact,
      sc_list |-> _extract_scs(ent.rule.tags),
      selector |-> selector_of(ent.node),
      html |-> ent.node.html,
      failureSummary |-> ent.node.failureSummary,
      why_any |-> _msgs(ent.node.any),
      why_all |-> _msgs(ent.node.all),
      why_none |-> _msgs(ent.node.none) ]

\* a log that leaves out the nodes without a selector, as the candidate loops do
NodeLog_selected(payload) ==
    LET ents == BucketEntries(payload, "violations") \o BucketEntries(payload, "incomplete")
                \o BucketEntries(payload, "passes")
        kept == SelectSeq(ents, LAMBDA ent : selector_of(ent.node) # "")
    IN [k \in 1..Len(kept) |-> NodeRecord(kept[k])]

\* for bucket in ["violations","incomplete","passes"]: ... f.write(...)
NodeLog(payload) ==
    LET ents == BucketEntries(payload, "violations") \o BucketEntries(payload, "incomplete")
                \o BucketEntries(payload, "passes")
    IN [k \in 1..Len(ents) |-> NodeRecord(ents[k])]

\* "bucket": "must_review" (line 200)
bucket_must_review == "must_review"

\* mutant: the promoted candidates carry the must-review label
bucket_copied_from_must_review == "must_review"

\* "bucket": "semantic_review" (lines 251, 290)
bucket_semantic_review == "semantic_review"

\* candidates.append({...})
MkCandidate(bucket, r, n, sel, e, attrs) ==
    [ page_url |-> Url,
      bucket |-> bucket,
      topic |-> topic_of(_extract_scs(r.tags)),
      sc_list |-> _extract_scs(r.tags),
      axe_rule_id |-> r.id,
      axe_help |-> r.help,
      axe_help_url |-> r.helpUrl,
      impact |-> r.impact,
      selector |-> sel,
      html_snippet |-> n.html,
      attributes |-> attrs,
      role_name_guess |-> get_role_name_guess(e),
      nearby_text |-> get_nearby_text(e),
      acc_snapshot |-> get_accessibility_snapshot(e),
      screenshot |-> crop_element_screenshot(e, shot_path(r.id, sel)),
      failureSummary |-> n.failureSummary,
      why_any |-> _msgs(n.any),
      why_all |-> _msgs(n.all),
      why_none |-> _msgs(n.none) ]

WriteNodesLog ==
    /\ pc = "nodes_log"
    /\ fs' = [fs EXCEPT !.axe_nodes = NodeLog(axe_payload)]
    /\ pc' = "must_review"
    /\ UNCHANGED <<scanVars, reviewVars>>

\* the key of a must-review node ...
MustKey(ent) == <<ent.rule.id, selector_of(ent.node)>>

\* mutant: a node without a selector is not left out
MustSkips_seen_only(ent, seenKeys) == MustKey(ent) \in seenKeys

\* ... and whether the node is left out (lines 183-187)
MustSkips(ent, seenKeys) == selector_of(ent.node) = "" \/ MustKey(ent) \in seenKeys

\* one iteration of the must-review loop body (lines 182-219)
MustReviewNode ==
    /\ pc = "must_review"
    /\ mk <= Len(MustEntries(axe_payload))
    /\ LET ent == MustEntries(axe_payload)[mk]
           sel == selector_of(ent.node)
       IN IF MustSkips(ent, seen)
          THEN /\ mk' = mk + 1
               /\ UNCHANGED <<pc, seen, candidates>>
          ELSE \E e \in MustElements(sel) :
                 /\ seen' = seen \cup {MustKey(ent)}
                 /\ IF candidate_attrs(e).raised
                    THEN /\ pc' = "scan_failed"
                         /\ UNCHANGED <<mk, candidates>>
                    ELSE /\ candidates' = Append(candidates,
                                MkCandidate(bucket_must_review, ent.rule, ent.node, sel, e,
                                            candidate_attrs(e).val))
                         /\ mk' = mk + 1
                         /\ pc' = pc
    /\ UNCHANGED <<axe_payload, pr, pn, probes, page, fs, reviewVars>>

MustReviewDone ==
    /\ pc = "must_review"
    /\ mk > Len(MustEntries(axe_payload))
    /\ pc' = "passes"
    /\ UNCHANGED <<scanVars, fs, reviewVars>>

InspectedIds == {"image-alt", "link-name"}

\* mutant: every node of the rule is inspected
InspectedNodes_unbounded(r) == r.nodes

\* r.get("nodes", [])[:30]
InspectedNodes(r) == str_prefix(r.nodes, NodeLimit)

\* if rid not in {"image-alt","link-name"}: continue
PassesSkipRule ==
    /\ pc = "passes"
    /\ pr <= Len(axe_payload.passes)
    /\ axe_payload.passes[pr].id \notin InspectedIds
    /\ pr' = pr + 1
    /\ pn' = 1
    /\ UNCHANGED <<axe_payload, pc, mk, seen, candidates, probes, page, fs, reviewVars>>

GenericWords == { <<"i","m","a","g","e">>, <<"p","h","o","t","o">>, <<"i","m","g","_">>,
                  <<".","j","p","g">>, <<".","p","n","g">> }

\* rn = role_name.split(" — ",1)[1] if " — " in role_name else role_name
name_part(role_name) ==
    IF str_contains(role_name, Sep)
    THEN SubSeq(role_name, str_find(role_name, Sep) + Len(Sep), Len(role_name))
    ELSE role_name

\* generic = any(g in rn for g in [...])
generic(e) ==
    LET rn == name_part(str_lower(get_role_name_guess(e)))
    IN \E g \in GenericWords : str_contains(rn, g)

GenericLinkTexts == { <<"c","l","i","c","k"," ","h","e","r","e">>,
                      <<"l","e","a","r","n"," ","m","o","r","e">>,
                      <<"r","e","a","d"," ","m","o","r","e">> }

\* txt = (page.inner_text(sel) or "").strip().lower() if page.query_selector(sel) else ""
link_txt(e) ==
    IF query_selector(e).raised THEN Raised
    ELSE IF ~query_selector(e).val THEN Returned(<<>>)
    ELSE IF inner_text(e).raised THEN Raised
    ELSE Returned(str_lower(str_strip(inner_text(e).val, Whitespace)))

\* mutant: no break, the loop goes on with the next node
LoopAfterAppend_no_break(prv, pnv) == [pr |-> prv, pn |-> pnv + 1]

\* the loop position after a candidate was appended: break, so the next rule
LoopAfterAppend(prv, pnv) == [pr |-> prv + 1, pn |-> 1]

\* mutant: the promotion passes do not consult the seen set
Promotes_unchecked(qualifies, key, seenKeys) == qualifies

\* whether the node is promoted: the heuristic outcome and the key not seen yet
Promotes(qualifies, key, seenKeys) == qualifies /\ key \notin seenKeys

\* the effect of one iteration of a promotion loop on the loop position and the
\* candidates: abort, continue with the next node, or append and break
PromotionStep(r, n, sel, e, failed, qualifies) ==
    IF failed \/ (Promotes(qualifies, <<r.id, sel>>, seen) /\ candidate_attrs(e).raised)
    THEN /\ pc' = "scan_failed"
         /\ UNCHANGED <<pr, pn, seen, candidates, probes>>
    ELSE /\ probes' = probes \cup {[r |-> pr, n |-> pn, e |-> e]}
         /\ pc' = pc
         /\ IF Promotes(qualifies, <<r.id, sel>>, seen)
            THEN /\ seen' = seen \cup {<<r.id, sel>>}
                 /\ candidates' = Append(candidates,
                        MkCandidate(bucket_semantic_review, r, n, sel, e, candidate_attrs(e).val))
                 /\ pr' = LoopAfterAppend(pr, pn).pr
                 /\ pn' = LoopAfterAppend(pr, pn).pn
            ELSE /\ pn' = pn + 1
                 /\ UNCHANGED <<pr, seen, candidates>>

\* one iteration of the image-alt loop body (lines 231-270)
ImageAltNode ==
    /\ pc = "passes"
    /\ pr <= Len(axe_payload.passes)
    /\ axe_payload.passes[pr].id = "image-alt"
    /\ pn <= Len(InspectedNodes(axe_payload.passes[pr]))
    /\ LET r == axe_payload.passes[pr]
           n == r.nodes[pn]
           sel == selector_of(n)
       IN IF sel = ""
          THEN /\ pn' = pn + 1
               /\ UNCHANGED <<pc, pr, seen, candidates, probes>>
          ELSE \E e \in ImageElements(sel) :
                 PromotionStep(r, n, sel, e, eval_closest_a_button(e).raised,
                               IF eval_closest_a_button(e).raised THEN FALSE
                               ELSE eval_closest_a_button(e).val \/ generic(e))
    /\ UNCHANGED <<axe_payload, mk, page, fs, reviewVars>>

\* one iteration of the link-name loop body (lines 273-309)
LinkNameNode ==
    /\ pc = "passes"
    /\ pr <= Len(axe_payload.passes)
    /\ axe_payload.passes[pr].id = "link-name"
    /\ pn <= Len(InspectedNodes(axe_payload.passes[pr]))
    /\ LET r == axe_payload.passes[pr]
           n == r.nodes[pn]
           sel == selector_of(n)
       IN IF sel = ""
          THEN /\ pn' = pn + 1
               /\ UNCHANGED <<pc, pr, seen, candidates, probes>>
          ELSE \E e \in LinkElements(sel) :
                 PromotionStep(r, n, sel, e, link_txt(e).raised,
                               IF link_txt(e).raised THEN FALSE
                               ELSE link_txt(e).val \in GenericLinkTexts)
    /\ UNCHANGED <<axe_payload, mk, page, fs, reviewVars>>

\* a promotion loop ends without a break
PassesRuleDone ==
    /\ pc = "passes"
    /\ pr <= Len(axe_payload.passes)
    /\ axe_payload.passes[pr].id \in InspectedIds
    /\ pn > Len(InspectedNodes(axe_payload.passes[pr]))
    /\ pr' = pr + 1
    /\ pn' = 1
    /\ UNCHANGED <<axe_payload, pc, mk, seen, candidates, probes, page, fs, reviewVars>>

\* (out_dir / "candidates.json").write_text(json.dumps(candidates, indent=2))
WriteCandidates ==
    /\ pc = "passes"
    /\ pr > Len(axe_payload.passes)
    /\ fs' = [fs EXCEPT !.candidates_json = candidates]
    /\ pc' = "scan_done"
    /\ UNCHANGED <<scanVars, reviewVars>>

---------------------------------------------------------------------------
(* Specification of one scan *)

NoFiles ==
    [ axe_nodes |-> None, candidates_json |-> None, ai_verdicts |-> None,
      prompts_dir |-> FALSE, prompts |-> {} ]

ReviewIdle ==
    /\ env = [A11Y_USE_LLM |-> "0", OPENAI_API_KEY |-> "", A11Y_SKIP_BEST_PRACTICE |-> "0"]
    /\ template = <<>>
    /\ wcag_lib = <<>>
    /\ rv = [i |-> 0]
    /\ serviceCalls = 0
    /\ promptLog = <<>>
    /\ passes_run = 0
    /\ lastCall = [made |-> FALSE]
    /\ edits = 0

Init ==
    /\ \/ \E sz \in PayloadSizes :
             \E v \in MustShapes[sz[1]], i \in MustShapes[sz[2]], p \in PassShapes[sz[3]] :
               axe_payload = MkPayload(v, i, p)
       \/ axe_payload \in LongPayloads
    /\ pc = "nodes_log"
    /\ mk = 1
    /\ pr = 1
    /\ pn = 1
    /\ seen = {}
    /\ candidates = <<>>
    /\ probes = {}
    /\ page = [attempts |-> <<>>]
    /\ fs = NoFiles
    /\ ReviewIdle

Next ==
    \/ WriteNodesLog
    \/ MustReviewNode
    \/ MustReviewDone
    \/ PassesSkipRule
    \/ ImageAltNode
    \/ LinkNameNode
    \/ PassesRuleDone
    \/ WriteCandidates

Spec == Init /\ [][Next]_vars

---------------------------------------------------------------------------
(* Specification of one scan whose rules carry arbitrary tags *)

TagPool ==
    { <<"w","c","a","g","1","1","1">>, <<"W","C","A","G","2","4","4">>,
      <<"W","c","A","g","3","3","2">>, <<"w","c","a","g","2","a">>,
      <<"w","c","a","g","1","1","1","1">>, <<"x","w","c","a","g","1","1","1">>,
      <<"b","e","s","t","-","p","r","a","c","t","i","c","e">> }

TaggedPayload(tags) ==
    MkPayload(<< [id |-> "image-alt", tags |-> tags, targets |-> << <<"#a">> >>] >>,
              << >>,
              << [id |-> "region", tags |-> tags, targets |-> << <<"#a">> >>],
                 [id |-> "image-alt", tags |-> tags, targets |-> << <<"#b">> >>],
                 [id |-> "link-name", tags |-> tags, targets |-> << <<>>, <<"#b">> >>] >>)

InitTopic ==
    /\ \E n \in 0..MaxTags : \E tags \in [1..n -> TagPool] : axe_payload = TaggedPayload(tags)
    /\ pc = "nodes_log"
    /\ mk = 1
    /\ pr = 1
    /\ pn = 1
    /\ seen = {}
    /\ candidates = <<>>
    /\ probes = {}
    /\ page = [attempts |-> <<>>]
    /\ fs = NoFiles
    /\ ReviewIdle

SpecTopic == InitTopic /\ [][Next]_vars

---------------------------------------------------------------------------
(* Specification of the page navigation that opens a scan *)

\* run_axe_on_url(url, out_dir, timeout_ms) on a page that reaches the load
\* event after load_ms and network idle after idle_ms, or fails to navigate
InitNavigate ==
    /\ axe_payload = MkPayload(<<>>, <<>>, <<>>)
    /\ pc = "goto"
    /\ mk = 1
    /\ pr = 1
    /\ pn = 1
    /\ seen = {}
    /\ candidates = <<>>
    /\ probes = {}
    /\ \E timeout_ms \in (1..MaxDelay) \cup {DefaultTimeout} :
       \E idle_ms \in (0..MaxDelay) \cup {DefaultTimeout + 1} :
       \E load_ms \in {d \in (0..MaxDelay) \cup {DefaultTimeout + 1} : d <= idle_ms} :
       \E fails \in BOOLEAN :
          page = [ timeout_ms |-> timeout_ms, idle_ms |-> idle_ms, load_ms |-> load_ms,
                   fails |-> fails, attempts |-> <<>> ]
    /\ fs = NoFiles
    /\ ReviewIdle

\* a first attempt whose timeout ends the scan
GotoNetworkIdle_fatal_timeout ==
    /\ pc = "goto"
    /\ \E outcome \in {IF page.fails THEN "Error"
                       ELSE IF page.idle_ms > page.timeout_ms THEN "TimeoutError"
                       ELSE "ok"} :
          /\ page' = [page EXCEPT !.attempts =
                         Append(@, [ wait_until |-> "networkidle",
                                     timeout |-> page.timeout_ms, outcome |-> outcome ])]
          /\ pc' = IF outcome = "ok" THEN "nodes_log" ELSE "scan_failed"
    /\ UNCHANGED <<axe_payload, mk, pr, pn, seen, candidates, probes, fs, reviewVars>>

\* page.goto(url, timeout=timeout_ms, wait_until="networkidle") in its try block
GotoNetworkIdle ==
    /\ pc = "goto"
    /\ \E outcome \in {IF page.fails THEN "Error"
                       ELSE IF page.idle_ms > page.timeout_ms THEN "TimeoutError"
                       ELSE "ok"} :
          /\ page' = [page EXCEPT !.attempts =
                         Append(@, [ wait_until |-> "networkidle",
                                     timeout |-> page.timeout_ms, outcome |-> outcome ])]
          /\ pc' = IF outcome = "ok" THEN "nodes_log"
                   ELSE IF outcome = "TimeoutError" THEN "goto_retry"
                   ELSE "scan_failed"
    /\ UNCHANGED <<axe_payload, mk, pr, pn, seen, candidates, probes, fs, reviewVars>>

\* except PlaywrightTimeoutError: page.goto(url, wait_until="load"), which waits
\* for the library's default timeout and is in no try block
GotoLoad ==
    /\ pc = "goto_retry"
    /\ \E outcome \in {IF page.load_ms > DefaultTimeout THEN "TimeoutError" ELSE "ok"} :
          /\ page' = [page EXCEPT !.attempts =
                         Append(@, [ wait_until |-> "load",
                                     timeout |-> DefaultTimeout, outcome |-> outcome ])]
          /\ pc' = IF outcome = "ok" THEN "nodes_log" ELSE "scan_failed"
    /\ UNCHANGED <<axe_payload, mk, pr, pn, seen, candidates, probes, fs, reviewVars>>

SpecNavigate == InitNavigate /\ [][GotoNetworkIdle \/ GotoLoad]_vars

---------------------------------------------------------------------------
(* Specification of one call of crop_element_screenshot *)

\* the rectangle handed to im.crop for a bounding box and the full-page image
\* im, None when it has no width or no height (lines 47-62)
crop_clip(box, im) ==
    LET x == Max(0, box.x - 2)
        y == Max(0, box.y - 2)
        w == Min(box.width + 4, im.width - x)
        h == Min(box.height + 4, im.height - y)
    IN IF w <= 0 \/ h <= 0 THEN NoneRec
       ELSE [left |-> x, top |-> y, right |-> x + w, bottom |-> y + h]

\* the selector matches no element, an element without a box, or an element
\* with an integer bounding box; the full-page screenshot has some size
InitCrop ==
    /\ axe_payload = MkPayload(<<>>, <<>>, <<>>)
    /\ pc = "crop"
    /\ mk = 1
    /\ pr = 1
    /\ pn = 1
    /\ seen = {}
    /\ candidates = <<>>
    /\ probes = {}
    /\ \E W \in 1..MaxCoord, H \in 1..MaxCoord :
       \E el \in {[found |-> FALSE], [found |-> TRUE, box |-> NoneRec]}
                 \cup { [found |-> TRUE,
                         box |-> [x |-> x, y |-> y, width |-> w, height |-> h]] :
                           x \in (0 - MaxCoord)..MaxCoord, y \in (0 - MaxCoord)..MaxCoord,
                           w \in 0..MaxCoord, h \in 0..MaxCoord } :
          page = [ el |-> el, im |-> [width |-> W, height |-> H],
                   attempts |-> <<>>, shot |-> [called |-> FALSE] ]
    /\ fs = NoFiles
    /\ ReviewIdle

\* crop_element_screenshot(page, selector, out_path)
CropElement ==
    /\ pc = "crop"
    /\ pc' = "cropped"
    /\ page' = [page EXCEPT !.shot =
                   [ called |-> TRUE, raised |-> FALSE,
                     clip |-> IF ~page.el.found THEN NoneRec
                              ELSE IF page.el.box = NoneRec THEN NoneRec
                              ELSE crop_clip(page.el.box, page.im) ]]
    /\ UNCHANGED <<axe_payload, mk, pr, pn, seen, candidates, probes, fs, reviewVars>>

SpecCrop == InitCrop /\ [][CropElement]_vars

---------------------------------------------------------------------------
(* Review: success criterion of a candidate and technique retrieval *)

\* _SC_REGEX.search(t): the groups of the leftmost d.d.d in t, <<>> when none
re_search_sc(t) ==
    LET hits == { k \in 1..(Len(t) - 4) :
                    /\ t[k] \in Digits /\ t[k + 1] = "." /\ t[k + 2] \in Digits
                    /\ t[k + 3] = "." /\ t[k + 4] \in Digits }
        k0 == CHOOSE k \in hits : \A j \in hits : k <= j
    IN IF hits = {} THEN <<>> ELSE <<t[k0], t[k0 + 2], t[k0 + 4]>>

\* _WCAG_TAG_REGEX.match(s), case-insensitive
re_match_wcag_tag(s) == re_match_wcag(str_lower(s))

\* _WCAG_TAG_REGEX.search(t): the leftmost suffix of t that matches
re_search_wcag_tag(t) ==
    LET hits == { k \in 1..Len(t) : re_match_wcag_tag(SubSeq(t, k, Len(t))) # <<>> }
        k0 == CHOOSE k \in hits : \A j \in hits : k <= j
    IN IF hits = {} THEN <<>> ELSE re_match_wcag_tag(SubSeq(t, k0, Len(t)))

\* str.replace(old, "")
RECURSIVE str_remove(_, _)
str_remove(s, old) ==
    IF Len(s) < Len(old) THEN s
    ELSE IF SubSeq(s, 1, Len(old)) = old THEN str_remove(SubSeq(s, Len(old) + 1, Len(s)), old)
    ELSE <<Head(s)>> \o str_remove(Tail(s), old)

_norm_sc_from_topic(topic) ==
    LET t == str_strip(py_or(topic, <<>>), Whitespace)
        m1 == re_search_sc(t)
        m2 == re_search_wcag_tag(t)
        t3 == str_strip(str_remove(str_lower(t), <<"s","c","-">>), Whitespace)
        m3 == re_search_sc(t3)
    IN IF m1 # <<>> THEN join_dots(m1)
       ELSE IF m2 # <<>> THEN join_dots(m2)
       ELSE IF m3 # <<>> THEN join_dots(m3) ELSE <<>>

\* the entries of sc_list that match the wcag tag pattern, as dotted criteria
RECURSIVE wcag_tags_of(_)
wcag_tags_of(scs) ==
    IF scs = <<>> THEN <<>>
    ELSE LET m == re_match_wcag_tag(Head(scs))
         IN (IF m # <<>> THEN <<join_dots(m)>> ELSE <<>>) \o wcag_tags_of(Tail(scs))

\* the primary criterion taken from sc_list alone, without the topic
_scs_from_candidate_no_topic(c) ==
    LET sc_list == wcag_tags_of(c.sc_list)
    IN [ sc_primary |-> IF sc_list # <<>> THEN sc_list[1] ELSE <<>>,
         sc_list |-> sc_list ]

\* (sc_primary, sc_list)
_scs_from_candidate(c) ==
    LET sc_list == wcag_tags_of(c.sc_list)
    IN [ sc_primary |-> IF sc_list # <<>> THEN sc_list[1]
                        ELSE py_or(_norm_sc_from_topic(c.topic), <<>>),
         sc_list |-> sc_list ]

\* a file of the knowledge base directory: text that is no JSON, or a document
BrokenFile == [json |-> FALSE]

Doc_1_1_1 ==
    [ json |-> TRUE,
      topic |-> <<"S","C","-","1",".","1",".","1"," ","A","l","t">>,
      tags |-> << <<"I","m","a","g","e","s">>, <<"S","C","-","1",".","1",".","1">> >>,
      do |-> <<"Describe the purpose of the image.">>,
      dont |-> <<"Do not repeat the file name.">>,
      edge_cases |-> <<"Decorative images take alt=\"\".">> ]

Doc_2_4_4 ==
    [ json |-> TRUE,
      topic |-> <<"L","i","n","k"," ","p","u","r","p","o","s","e"," ","2",".","4",".","4">>,
      tags |-> << >>,
      do |-> <<"Name the link target.">>,
      dont |-> << >>,
      edge_cases |-> << >> ]

\* a file that parses, whose "tags" member is null
Doc_null_tags ==
    [ json |-> TRUE,
      topic |-> <<"H","e","a","d","i","n","g","s">>,
      tags |-> NoneRec,
      do |-> <<"Use headings in order.">>,
      dont |-> << >>,
      edge_cases |-> << >> ]

\* the documents load_techniques keeps: the files that parse
RECURSIVE load_techniques(_)
load_techniques(files) ==
    IF files = <<>> THEN <<>>
    ELSE (IF Head(files).json THEN <<Head(files)>> ELSE <<>>) \o load_techniques(Tail(files))

\* the first document whose tags or topic reference the criterion, {} when none;
\* iterating the tags of a document whose "tags" is null raises TypeError, which
\* ends the loop over the documents at that document
retrieve_for_sc(sc, techniques) ==
    LET sc_l == str_lower(sc)
        refers(t) ==
            LET tags == { str_lower(t.tags[k]) : k \in 1..Len(t.tags) }
                topic == str_lower(py_or(t.topic, <<>>))
            IN \/ (<<"s","c","-">> \o sc_l) \in tags
               \/ sc_l \in tags
               \/ str_contains(topic, sc_l)
        hits == { k \in 1..Len(techniques) :
                    techniques[k].tags = NoneRec \/ refers(techniques[k]) }
        first == CHOOSE k \in hits : \A j \in hits : k <= j
    IN IF hits = {} THEN EmptyDict
       ELSE IF techniques[first].tags = NoneRec THEN [raised |-> TRUE, error |-> "TypeError"]
       ELSE techniques[first]

\* f"SC {sc}"
sc_label(sc) == <<"S","C"," ">> \o sc

_synth_context(sc, c) ==
    [ topic |-> IF sc # <<>> THEN sc_label(sc)
                ELSE <<"U","n","m","a","p","p","e","d"," ","r","u","l","e">>,
      do |-> << "Apply WCAG techniques conservatively for this SC.",
                "Prefer 'needs-change' when meaning or programmatic name is unclear." >>,
      dont |-> << "Do not approve ambiguous or redundant alternatives.",
                  "Do not rely on visual presentation alone." >>,
      edge_cases |-> << >> ]

---------------------------------------------------------------------------
(* Review: the prompt compiler *)

\* pieces of a compiled text: a string, a text, an html fragment, json.dumps(v)
Str(s) == [str |-> s]
Chars(cs) == [chars |-> cs]
Obj(o) == [obj |-> o]
Json(v) == [json |-> v]

\* str(x) of a string or None
py_str(x) == IF x = None THEN "None" ELSE x

\* bool(x) of a string or None
truthy(x) == x \notin {None, ""}

\* an exception leaving a call
RaisedErr(err) == [raised |-> TRUE, error |-> err]

\* the names build_prompt hands to str.format
FmtNames ==
    { "topic_label", "techniques_context", "selector", "html_snippet", "attributes",
      "role_name", "nearby_text", "acc_snapshot", "rule_id", "axe_help", "impact" }

\* a template is a sequence of tokens: "{", "}", or a run of text without braces.
\* tpl.format(**fmt_vars) from token k on, after the pieces in done: the pieces,
\* or the first exception
RECURSIVE format_from(_, _, _, _)
format_from(tpl, k, fmt_vars, done) ==
    IF k > Len(tpl) THEN Returned(done)
    ELSE IF tpl[k] = "{"
    THEN IF k = Len(tpl) THEN RaisedErr("ValueError")
         ELSE IF tpl[k + 1] = "{" THEN format_from(tpl, k + 2, fmt_vars, Append(done, Str("{")))
         ELSE IF tpl[k + 1] = "}" THEN RaisedErr("IndexError")
         ELSE IF k + 2 > Len(tpl) \/ tpl[k + 2] # "}" THEN RaisedErr("ValueError")
         ELSE IF tpl[k + 1] \in FmtNames
         THEN format_from(tpl, k + 3, fmt_vars, Append(done, fmt_vars[tpl[k + 1]]))
         ELSE IF tpl[k + 1] \in Digits THEN RaisedErr("IndexError")
         ELSE RaisedErr("KeyError")
    ELSE IF tpl[k] = "}"
    THEN IF k < Len(tpl) /\ tpl[k + 1] = "}"
         THEN format_from(tpl, k + 2, fmt_vars, Append(done, Str("}")))
         ELSE RaisedErr("ValueError")
    ELSE format_from(tpl, k + 1, fmt_vars, Append(done, Str(tpl[k])))

str_format(tpl, fmt_vars) == format_from(tpl, 1, fmt_vars, <<>>)

\* the do list of the synthesized document with the axe help folded in
synth_do(base, c) ==
    base \o (IF truthy(c.axe_help) THEN <<"Consider axe help: " \o c.axe_help>> ELSE <<>>)
         \o (IF truthy(c.axe_help_url) THEN <<"Ref: " \o c.axe_help_url>> ELSE <<>>)

\* mutant: the synthesized document is one shared object, so the guidance folded
\* in for earlier candidates is still in its do list
synth_doc_shared(sc, c) ==
    LET synth == _synth_context(sc, c)
        earlier == Concat([k \in 1..Len(promptLog) |->
                             IF promptLog[k].tech_doc = EmptyDict
                             THEN synth_do(<<>>, promptLog[k].c) ELSE <<>>])
    IN [synth EXCEPT !.do = synth_do(synth.do \o earlier, c)]

\* tech_doc = _synth_context(sc, c), then the appends to its do list
synth_doc(sc, c) ==
    LET synth == _synth_context(sc, c)
    IN [synth EXCEPT !.do = synth_do(synth.do, c)]

\* template_text: what template_path.read_text() returns
build_prompt(template_text, sc, tech_doc, c) ==
    LET doc == IF tech_doc = EmptyDict THEN synth_doc(sc, c) ELSE tech_doc
        techniques_context ==
            Json([topic |-> doc.topic, do |-> doc.do, dont |-> doc.dont,
                  edge_cases |-> doc.edge_cases])
        why_pack ==
            [ failureSummary |-> c.failureSummary, why_any |-> c.why_any,
              why_all |-> c.why_all, why_none |-> c.why_none, page_url |-> c.page_url ]
        fmt_vars ==
            [ topic_label |-> Chars(IF sc # <<>> THEN sc_label(sc)
                                    ELSE py_or(c.topic, <<"U","n","m","a","p","p","e","d">>)),
              techniques_context |-> techniques_context,
              selector |-> Str(c.selector),
              html_snippet |-> Obj(c.html_snippet),
              attributes |-> Json(c.attributes),
              role_name |-> Chars(c.role_name_guess),
              nearby_text |-> Chars(str_prefix(c.nearby_text, 800)),
              acc_snapshot |-> Json(c.acc_snapshot),
              rule_id |-> Str(c.axe_rule_id),
              axe_help |-> Str(py_str(c.axe_help)),
              impact |-> Str(py_str(c.impact)) ]
        formatted == str_format(template_text, fmt_vars)
    IN IF formatted.raised
       THEN IF formatted.error \in {"KeyError", "ValueError"}
            THEN RaisedErr("RuntimeError") ELSE formatted
       ELSE Returned(formatted.val \o <<Str("\n\nAXE_DIAGNOSTICS:\n"), Json(why_pack)>>)

\* sha256(prompt.encode("utf-8")).hexdigest()[:16]: a function of the prompt text
sha256_16(prompt) == [sha256_16 |-> prompt]

---------------------------------------------------------------------------
(* Review: the verdict adapter *)

\* str.rfind(sub) + 1: the last position where sub occurs in s, 0 when it does not
str_rfind(s, sub) ==
    LET hits == {k \in 1..(Len(s) - Len(sub) + 1) : SubSeq(s, k, k + Len(sub) - 1) = sub}
    IN IF hits = {} THEN 0 ELSE CHOOSE k \in hits : \A j \in hits : k >= j

\* for k in ["type","verdict","reason","confidence","techniques_used"]
RequiredKeys == <<"type", "verdict", "reason", "confidence", "techniques_used">>

\* a parsed JSON value with its Python type
JObject(o) == [jtype |-> "object", obj |-> o]
JArray(a) == [jtype |-> "array", arr |-> a]
JNumber(n) == [jtype |-> "number", num |-> n]

\* the members a response object may carry: the five keys; all but confidence;
\* the five and one more
Members(m) ==
    CASE m = "K" -> [ type |-> "failure", verdict |-> "fail",
                      reason |-> "The alternative repeats the file name.",
                      confidence |-> "0.9", techniques_used |-> <<"H37">> ]
      [] m = "M" -> [ type |-> "failure", verdict |-> "fail",
                      reason |-> "The alternative repeats the file name.",
                      techniques_used |-> <<"H37">> ]
      [] m = "X" -> [ type |-> "failure", verdict |-> "fail",
                      reason |-> "The alternative repeats the file name.",
                      confidence |-> "0.9", techniques_used |-> <<"H37">>,
                      notes |-> "checked by hand" ]

\* a response text is a sequence of tokens: "{", "}", the members of an object
\* ("K", "M", "X"), "A" (the array of the five key names), "N" (a number),
\* "t" (prose), " " (white space).  json.loads(text): the value, or no value
json_loads(text) ==
    LET t == str_strip(text, Whitespace)
    IN IF Len(t) = 3 /\ t[1] = "{" /\ t[2] \in {"K", "M", "X"} /\ t[3] = "}"
       THEN [ok |-> TRUE, data |-> JObject(Members(t[2]))]
       ELSE IF t = <<"{", "}">> THEN [ok |-> TRUE, data |-> JObject(<<>>)]
       ELSE IF t = <<"A">> THEN [ok |-> TRUE, data |-> JArray(RequiredKeys)]
       ELSE IF t = <<"N">> THEN [ok |-> TRUE, data |-> JNumber(1)]
       ELSE [ok |-> FALSE]

\* k in data, for a dict (its keys) and a list (its elements)
py_in(k, data) ==
    IF data.jtype = "object" THEN k \in DOMAIN data.obj
    ELSE \E j \in 1..Len(data.arr) : data.arr[j] = k

\* mutant: the keys of the parsed value are not checked
missing_keys_unchecked(data) == <<>>

\* the required keys that are not in data, in the order of the check
missing_keys(data) == SelectSeq(RequiredKeys, LAMBDA k : ~py_in(k, data))

\* the except branch of _run_llm_openai
fallback_verdict(e) ==
    JObject([ type |-> "informative", verdict |-> "needs-change",
              reason |-> "LLM fallback (parse/error): " \o e,
              confidence |-> "0.4", techniques_used |-> <<"fallback">> ])

\* what the external service does with one request: the request fails, or a
\* completion with a text comes back
ServiceOutcomes ==
    { [kind |-> "APIConnectionError"],
      [kind |-> "content", text |-> <<"t">>],
      [kind |-> "content", text |-> <<"{", "M", "}">>],
      [kind |-> "content", text |-> <<" ", "t", " ", "{", "K", "}", " ", "t", "\n">>],
      [kind |-> "content", text |-> <<"{", "X", "}">>] }

NoOutcome == [kind |-> "not called"]

\* the verdict and the number of requests sent to the service
_run_llm_openai(prompt, outcome) ==
    IF outcome.kind # "content"
    THEN [verdict |-> fallback_verdict(outcome.kind), requests |-> 1]
    ELSE LET stripped == str_strip(outcome.text, Whitespace)
             s == str_find(stripped, <<"{">>)
             e == str_rfind(stripped, <<"}">>)
             text == IF s # 0 /\ e # 0 /\ e > s THEN SubSeq(stripped, s, e) ELSE stripped
             parsed == json_loads(text)
         IN [ verdict |->
                IF ~parsed.ok THEN fallback_verdict("JSONDecodeError")
                ELSE IF parsed.data.jtype = "number" THEN fallback_verdict("TypeError")
                ELSE IF missing_keys(parsed.data) # <<>>
                THEN fallback_verdict("Missing key: " \o missing_keys(parsed.data)[1])
                ELSE parsed.data,
              requests |-> 1 ]

\* mutant: the switch alone decides
_use_live_llm_switch_only == env.A11Y_USE_LLM = "1"

\* the mode remembered from the previous call of the pass
_use_live_llm_cached ==
    LET e == IF lastCall.made /\ lastCall.pass = passes_run /\ lastCall.i < rv.i
             THEN lastCall.env ELSE env
    IN e.A11Y_USE_LLM = "1" /\ e.OPENAI_API_KEY \notin {None, ""}

_use_live_llm == env.A11Y_USE_LLM = "1" /\ env.OPENAI_API_KEY \notin {None, ""}

stub_verdict ==
    JObject([ type |-> "informative", verdict |-> "needs-change",
              reason |-> "Demo verdict (no live LLM or A11Y_USE_LLM=0).",
              confidence |-> "0.5", techniques_used |-> <<"demo-only">> ])

run_llm(prompt, outcome) ==
    IF _use_live_llm THEN _run_llm_openai(prompt, outcome)
    ELSE [verdict |-> stub_verdict, requests |-> 0]

---------------------------------------------------------------------------
(* Review: one pass over the candidates artifact *)

\* prompts_dir / f"{i:03d}_{sc_primary or (c.get('topic') or 'UNMAPPED')}_{rule id}.txt"
prompt_file(i, sc_primary, c) ==
    [ i |-> i,
      label |-> py_or(sc_primary, py_or(c.topic, <<"U","N","M","A","P","P","E","D">>)),
      rule |-> c.axe_rule_id ]

\* the file written with the interpolated template, without the diagnostics
\* block that build_prompt appends
write_text_before_diagnostics(files, name, text) ==
    {f \in files : f.name # name}
        \cup {[name |-> name, text |-> SubSeq(text, 1, Len(text) - 2)]}

\* pfile.write_text(prompt): the file is created or replaced
write_text(files, name, text) ==
    {f \in files : f.name # name} \cup {[name |-> name, text |-> text]}

VerdictRecord(c, scs, verdict, prompt_hash) ==
    [ page_url |-> c.page_url,
      topic |-> c.topic,
      SC |-> scs.sc_primary,
      sc_list |-> scs.sc_list,
      selector |-> c.selector,
      axe_rule_id |-> c.axe_rule_id,
      impact |-> c.impact,
      ai_verdict |-> verdict,
      screenshot |-> c.screenshot,
      axe_help_url |-> c.axe_help_url,
      prompt_hash |-> prompt_hash ]

\* review() creating the prompts directory ahead of the prerequisite check
ReviewStart_mkdir_first ==
    /\ pc = "review_idle"
    /\ passes_run' = passes_run + 1
    /\ fs' = [fs EXCEPT !.prompts_dir = TRUE]
    /\ IF fs.candidates_json = None
       THEN /\ pc' = "review_failed"
            /\ rv' = [error |-> "FileNotFoundError"]
       ELSE /\ pc' = "reviewing"
            /\ rv' = [ candidates |-> fs.candidates_json,
                       techniques |-> load_techniques(wcag_lib),
                       skip_best_practice |-> (env.A11Y_SKIP_BEST_PRACTICE = "1"),
                       i |-> 0,
                       results |-> <<>> ]
    /\ UNCHANGED <<scanVars, env, template, wcag_lib, serviceCalls, promptLog, lastCall,
                   edits>>

\* review() up to the loop: the prerequisite check, the loads, the prompts directory
ReviewStart ==
    /\ pc = "review_idle"
    /\ passes_run' = passes_run + 1
    /\ IF fs.candidates_json = None
       THEN /\ pc' = "review_failed"
            /\ rv' = [error |-> "FileNotFoundError"]
            /\ fs' = fs
       ELSE /\ pc' = "reviewing"
            /\ rv' = [ candidates |-> fs.candidates_json,
                       techniques |-> load_techniques(wcag_lib),
                       skip_best_practice |-> (env.A11Y_SKIP_BEST_PRACTICE = "1"),
                       i |-> 0,
                       results |-> <<>> ]
            /\ fs' = [fs EXCEPT !.prompts_dir = TRUE]
    /\ UNCHANGED <<scanVars, env, template, wcag_lib, serviceCalls, promptLog, lastCall,
                   edits>>

\* one iteration of the loop over the candidates
ReviewCandidate ==
    /\ pc = "reviewing"
    /\ rv.i < Len(rv.candidates)
    /\ \E c \in {rv.candidates[rv.i + 1]} :
       \E scs \in {_scs_from_candidate(c)} :
       \E tech_doc \in {IF scs.sc_primary # <<>>
                        THEN retrieve_for_sc(scs.sc_primary, rv.techniques)
                        ELSE EmptyDict} :
       \E built \in {IF "raised" \in DOMAIN tech_doc THEN tech_doc
                     ELSE build_prompt(template, scs.sc_primary, tech_doc, c)} :
       \E prompt_hash \in {IF built.raised THEN NoneRec ELSE sha256_16(built.val)} :
       \E logged \in {[ template |-> template, sc |-> scs.sc_primary,
                         tech_doc |-> tech_doc, c |-> c, out |-> built,
                         prompt_hash |-> prompt_hash ]} :
         IF rv.skip_best_practice /\ scs.sc_primary = <<>>
         THEN /\ rv' = [rv EXCEPT !.i = @ + 1]
              /\ UNCHANGED <<pc, fs, serviceCalls, promptLog, lastCall>>
         ELSE IF "raised" \in DOMAIN tech_doc
         THEN /\ pc' = "review_failed"
              /\ rv' = [error |-> tech_doc.error]
              /\ UNCHANGED <<fs, serviceCalls, promptLog, lastCall>>
         ELSE IF built.raised
         THEN /\ pc' = "review_failed"
              /\ rv' = [error |-> built.error]
              /\ promptLog' = Append(promptLog, logged)
              /\ UNCHANGED <<fs, serviceCalls, lastCall>>
         ELSE \E outcome \in (IF _use_live_llm THEN ServiceOutcomes ELSE {NoOutcome}) :
              \E called \in {run_llm(built.val, outcome)} :
                /\ fs' = [fs EXCEPT !.prompts =
                             write_text(@, prompt_file(rv.i, scs.sc_primary, c), built.val)]
                /\ serviceCalls' = serviceCalls + called.requests
                /\ lastCall' = [ made |-> TRUE, pass |-> passes_run, i |-> rv.i,
                                 env |-> env, prompt |-> built.val, outcome |-> outcome,
                                 verdict |-> called.verdict,
                                 requests |-> called.requests ]
                /\ promptLog' = Append(promptLog, logged)
                /\ rv' = [rv EXCEPT
                            !.i = @ + 1,
                            !.results = Append(@, VerdictRecord(c, scs, called.verdict,
                                                                prompt_hash))]
                /\ pc' = pc
    /\ UNCHANGED <<scanVars, env, template, wcag_lib, passes_run, edits>>

\* a write that appends the records to those of the prior artifact
ReviewWrite_appending ==
    /\ pc = "reviewing"
    /\ rv.i = Len(rv.candidates)
    /\ fs' = [fs EXCEPT !.ai_verdicts = (IF @ = None THEN <<>> ELSE @) \o rv.results]
    /\ pc' = "review_done"
    /\ UNCHANGED <<scanVars, env, template, wcag_lib, rv, serviceCalls, promptLog,
                   passes_run, lastCall, edits>>

\* the write of ai_verdicts.json moved into the loop body
ReviewWrite_inside_loop ==
    /\ pc = "reviewing"
    /\ fs' = [fs EXCEPT !.ai_verdicts = rv.results]
    /\ pc' = IF rv.i = Len(rv.candidates) THEN "review_done" ELSE pc
    /\ UNCHANGED <<scanVars, env, template, wcag_lib, rv, serviceCalls, promptLog,
                   passes_run, lastCall, edits>>

\* the single write of ai_verdicts.json after the loop
ReviewWrite ==
    /\ pc = "reviewing"
    /\ rv.i = Len(rv.candidates)
    /\ fs' = [fs EXCEPT !.ai_verdicts = rv.results]
    /\ pc' = "review_done"
    /\ UNCHANGED <<scanVars, env, template, wcag_lib, rv, serviceCalls, promptLog,
                   passes_run, lastCall, edits>>

\* the front-end runs review again on the same output directory
ReviewAgain ==
    /\ pc \in {"review_done", "review_failed"}
    /\ passes_run < MaxPasses
    /\ pc' = "review_idle"
    /\ UNCHANGED <<scanVars, fs, reviewVars>>

---------------------------------------------------------------------------
(* Specification of the review passes on one output directory *)

ReviewedRule(id) ==
    MkRule("violations", 1, [id |-> id, tags |-> RuleTags(id), targets |-> << <<"#a">> >>])

\* candidates as a scan writes them
ArtifactBase ==
    << MkCandidate(bucket_must_review, ReviewedRule("image-alt"),
                   ReviewedRule("image-alt").nodes[1], "#a", E_photo, E_photo.attrs),
       MkCandidate(bucket_must_review, ReviewedRule("region"),
                   ReviewedRule("region").nodes[1], "#b", E_logo, E_logo.attrs),
       MkCandidate(bucket_semantic_review, MkRule("passes", 1,
                       [id |-> "link-name", tags |-> RuleTags("link-name"),
                        targets |-> << <<"#c">> >>]),
                   MkNode("passes", 1, 1, <<"#c">>), "#c", E_click, E_click.attrs) >>

\* the candidates artifacts of up to MaxCands candidates
Artifacts ==
    { SubSeq(ArtifactBase, p[1], p[2]) :
        p \in { q \in (1..Len(ArtifactBase)) \X (0..Len(ArtifactBase)) :
                  q[1] - 1 <= q[2] /\ q[2] - q[1] + 1 <= MaxCands } }

Template_ok ==
    << "Review ", "{", "rule_id", "}", " (", "{", "topic_label", "}", ", ",
       "{", "impact", "}", ") at ", "{", "selector", "}", ": ", "{", "html_snippet", "}",
       " ", "{", "attributes", "}", " ", "{", "role_name", "}", " ", "{", "nearby_text", "}",
       " ", "{", "acc_snapshot", "}", " ", "{", "axe_help", "}", " ",
       "{", "techniques_context", "}", " Answer as ", "{", "{", "\"verdict\": ...", "}", "}" >>

Template_unknown_name == << "Review ", "{", "selector", "}", " ", "{", "element", "}" >>

Template_positional == << "Review ", "{", "}" >>

Template_stray_brace == << "Review ", "{", "selector", "}", " as JSON ", "}" >>

Templates ==
    {Template_ok, Template_unknown_name, Template_positional, Template_stray_brace}

MkEnv(switch, key, skip) ==
    [A11Y_USE_LLM |-> switch, OPENAI_API_KEY |-> key, A11Y_SKIP_BEST_PRACTICE |-> skip]

Envs ==
    { MkEnv("1", "sk-test", None), MkEnv("1", "", "0"),
      MkEnv("0", "sk-test", "1"), MkEnv(None, None, None) }

Libraries == { <<>>, <<BrokenFile, Doc_2_4_4, Doc_1_1_1>> }

\* and a knowledge base with a file that parses but carries no tag list
LibrariesAny == Libraries \cup { <<Doc_2_4_4, Doc_null_tags, Doc_1_1_1>> }

InitReview ==
    /\ axe_payload = MkPayload(<<>>, <<>>, <<>>)
    /\ pc = "review_idle"
    /\ mk = 1
    /\ pr = 1
    /\ pn = 1
    /\ seen = {}
    /\ candidates = <<>>
    /\ probes = {}
    /\ page = [attempts |-> <<>>]
    /\ \/ fs = NoFiles
       \/ \E a \in Artifacts : fs = [NoFiles EXCEPT !.candidates_json = a]
    /\ env \in Envs
    /\ template \in Templates
    /\ wcag_lib \in Libraries
    /\ rv = [i |-> 0]
    /\ serviceCalls = 0
    /\ promptLog = <<>>
    /\ passes_run = 0
    /\ lastCall = [made |-> FALSE]
    /\ edits = 0

NextReview ==
    \/ ReviewStart
    \/ ReviewCandidate
    \/ ReviewWrite
    \/ ReviewAgain

SpecReview == InitReview /\ [][NextReview]_vars

---------------------------------------------------------------------------
(* Specification of review passes on one output directory between which a new
   scan replaces candidates.json or the sidebar toggles the skip flag *)

\* after a completed pass: run_axe_on_url writes candidates.json anew, or
\* os.environ["A11Y_SKIP_BEST_PRACTICE"] is assigned; then review runs again
Reconfigure ==
    /\ pc = "review_done"
    /\ passes_run < MaxPasses
    /\ pc' = "review_idle"
    /\ \/ /\ \E a \in Artifacts :
                /\ a # fs.candidates_json
                /\ fs' = [fs EXCEPT !.candidates_json = a]
          /\ env' = env
       \/ /\ env' = [env EXCEPT !.A11Y_SKIP_BEST_PRACTICE = IF @ = "1" THEN "0" ELSE "1"]
          /\ fs' = fs
    /\ UNCHANGED <<scanVars, template, wcag_lib, rv, serviceCalls, promptLog, passes_run,
                   lastCall, edits>>

SpecRerun == InitReview /\ [][NextReview \/ Reconfigure]_vars

---------------------------------------------------------------------------
(* Specification of one review pass on a directory that may hold the files of
   an earlier pass, while the environment and the template file change *)

\* the sidebar assigns os.environ; the reviewer reads it again at every use
SetEnv ==
    /\ pc \in {"review_idle", "reviewing"}
    /\ edits < MaxEdits
    /\ \E e \in Envs : e # env /\ env' = e
    /\ edits' = edits + 1
    /\ UNCHANGED <<scanVars, pc, fs, template, wcag_lib, rv, serviceCalls, promptLog,
                   passes_run, lastCall>>

\* the template file is replaced; build_prompt reads it again at every call
EditTemplate ==
    /\ pc \in {"review_idle", "reviewing"}
    /\ edits < MaxEdits
    /\ \E t \in Templates : t # template /\ template' = t
    /\ edits' = edits + 1
    /\ UNCHANGED <<scanVars, pc, fs, env, wcag_lib, rv, serviceCalls, promptLog,
                   passes_run, lastCall>>

\* the files an earlier stub-mode pass over the first candidate left behind
PriorFiles ==
    LET c == ArtifactBase[1]
        scs == _scs_from_candidate(c)
        built == build_prompt(Template_ok, scs.sc_primary, EmptyDict, c)
    IN  [ NoFiles EXCEPT
            !.ai_verdicts = << VerdictRecord(c, scs, stub_verdict, sha256_16(built.val)) >>,
            !.prompts_dir = TRUE,
            !.prompts = {[name |-> prompt_file(0, scs.sc_primary, c), text |-> built.val]} ]

InitOperated ==
    /\ axe_payload = MkPayload(<<>>, <<>>, <<>>)
    /\ pc = "review_idle"
    /\ mk = 1
    /\ pr = 1
    /\ pn = 1
    /\ seen = {}
    /\ candidates = <<>>
    /\ probes = {}
    /\ page = [attempts |-> <<>>]
    /\ \E prior \in {NoFiles, PriorFiles} :
          \/ fs = prior
          \/ \E a \in Artifacts : fs = [prior EXCEPT !.candidates_json = a]
    /\ env \in Envs
    /\ template \in Templates
    /\ wcag_lib \in LibrariesAny
    /\ rv = [i |-> 0]
    /\ serviceCalls = 0
    /\ promptLog = <<>>
    /\ passes_run = 0
    /\ lastCall = [made |-> FALSE]
    /\ edits = 0

NextOperated ==
    \/ ReviewStart
    \/ ReviewCandidate
    \/ ReviewWrite
    \/ SetEnv
    \/ EditTemplate

SpecOperated == InitOperated /\ [][NextOperated]_vars

---------------------------------------------------------------------------
(* Specification of one call of the verdict adapter on an arbitrary response *)

\* the service has answered with a text over "{", "}", the five members, the
\* array of the five names, prose
InitAdapter ==
    /\ axe_payload = MkPayload(<<>>, <<>>, <<>>)
    /\ pc = "adapter_called"
    /\ mk = 1
    /\ pr = 1
    /\ pn = 1
    /\ seen = {}
    /\ candidates = <<>>
    /\ probes = {}
    /\ page = [attempts |-> <<>>]
    /\ fs = NoFiles
    /\ env = MkEnv("1", "sk-test", None)
    /\ template = <<>>
    /\ wcag_lib = <<>>
    /\ rv = [i |-> 0]
    /\ serviceCalls = 0
    /\ promptLog = <<>>
    /\ passes_run = 0
    /\ \E n \in 0..MaxResponse : \E text \in [1..n -> {"{", "}", "K", "A", "t"}] :
          lastCall = [made |-> FALSE, outcome |-> [kind |-> "content", text |-> text]]
    /\ edits = 0

\* _run_llm_openai from the response on: strip, slice, parse, check the keys
AdapterCall ==
    /\ pc = "adapter_called"
    /\ pc' = "adapter_returned"
    /\ \E called \in {_run_llm_openai(<<>>, lastCall.outcome)} :
          /\ lastCall' = [ made |-> TRUE, pass |-> 0, i |-> 0, env |-> env,
                           prompt |-> <<>>, outcome |-> lastCall.outcome, verdict |-> called.verdict,
                           requests |-> called.requests ]
          /\ serviceCalls' = serviceCalls + called.requests
    /\ UNCHANGED <<scanVars, fs, env, template, wcag_lib, rv, promptLog, passes_run, edits>>

SpecAdapter == InitAdapter /\ [][AdapterCall]_vars

---------------------------------------------------------------------------
(* Properties of the candidate selection *)

CandKey(c) == <<c.axe_rule_id, c.selector>>

UniqueKeys(cs) == \A j, k \in 1..Len(cs) : j # k => CandKey(cs[j]) # CandKey(cs[k])

\* the candidates list as a reader of the run sees it: the list in memory and,
\* once written, candidates.json
CandidateLists == {candidates} \cup (IF fs.candidates_json = None THEN {} ELSE {fs.candidates_json})

\* the accessible name of an element: aria-label, alt, aria-labelledby, inner text
ElementName(e) ==
    IF e.aria_label # <<>> THEN e.aria_label
    ELSE IF e.alt # <<>> THEN e.alt
    ELSE IF e.labelledby # <<>> THEN e.labelledby
    ELSE e.innerText

\* the heuristic of an inspected rule: for image-alt a generic name or an anchor
\* or button ancestor, for link-name one of the three generic link texts
MeetsHeuristic(rid, e) ==
    /\ e.ex = "ok"
    /\ IF rid = "image-alt"
       THEN \/ e.in_a_or_button
            \/ \E w \in GenericWords : str_contains(str_lower(ElementName(e)), w)
       ELSE str_lower(str_strip(e.innerText, Whitespace)) \in GenericLinkTexts

\* the node a candidate was built from: its html snippet is the node's
FromBucket(c) == c.html_snippet.b
FromRule(c) == c.html_snippet.r
FromNode(c) == c.html_snippet.n

\* C1: the candidates list never holds two candidates with the same
\* (axe_rule_id, selector) pair, and every candidate's pair is in the one seen set
C1_NoDuplicateCandidates ==
    /\ \A cs \in CandidateLists : UniqueKeys(cs)
    /\ \A k \in 1..Len(candidates) : CandKey(candidates[k]) \in seen

\* a node of passes that meets its heuristic was left out because a must-review
\* candidate holds its key
C1_Witness ==
    /\ pc = "scan_done"
    /\ \E p \in probes :
         LET r == axe_payload.passes[p.r]
             sel == Head(r.nodes[p.n].target)
         IN /\ MeetsHeuristic(r.id, p.e)
            /\ \E k \in 1..Len(candidates) :
                 /\ candidates[k].bucket = "must_review"
                 /\ CandKey(candidates[k]) = <<r.id, sel>>

BucketIndex(b) == IF b = "violations" THEN 1 ELSE IF b = "incomplete" THEN 2 ELSE 3

\* the positions <<bucket, rule, node>> of the nodes of violations and incomplete
MustPositions ==
    UNION { UNION { { <<b, r, n>> : n \in 1..Len(axe_payload[Buckets[b]][r].nodes) }
                    : r \in 1..Len(axe_payload[Buckets[b]]) }
            : b \in 1..2 }

\* scan order: violations before incomplete, then rule order, then node order
Before(p, q) ==
    \/ p[1] < q[1]
    \/ p[1] = q[1] /\ p[2] < q[2]
    \/ p[1] = q[1] /\ p[2] = q[2] /\ p[3] < q[3]

RuleAt(p) == axe_payload[Buckets[p[1]]][p[2]]
FirstTarget(p) == IF Len(RuleAt(p).nodes[p[3]].target) = 0 THEN "" ELSE RuleAt(p).nodes[p[3]].target[1]
KeyAt(p) == <<RuleAt(p).id, FirstTarget(p)>>

FirstOccurrences ==
    { p \in MustPositions :
        /\ FirstTarget(p) # ""
        /\ \A q \in MustPositions : Before(q, p) => KeyAt(q) # KeyAt(p) }

IsMustReview(c) == c.bucket = "must_review"
CandPos(c) == <<BucketIndex(FromBucket(c)), FromRule(c), FromNode(c)>>

ExactlyFirstOccurrences(cs) ==
    LET M == SelectSeq(cs, IsMustReview)
    IN /\ { CandPos(M[k]) : k \in 1..Len(M) } = FirstOccurrences
       /\ \A j, k \in 1..Len(M) : j < k => Before(CandPos(M[j]), CandPos(M[k]))
       /\ \A k \in 1..Len(M) : CandKey(M[k]) = KeyAt(CandPos(M[k]))

\* C2: once the must-review loops have run, the must_review candidates are exactly
\* the first occurrences, in scan order, of each key among the violations and
\* incomplete nodes with a non-empty first target selector
C2_MustReviewFirstOccurrences ==
    /\ pc \in {"passes", "scan_done"} => ExactlyFirstOccurrences(candidates)
    /\ fs.candidates_json # None => ExactlyFirstOccurrences(fs.candidates_json)

\* a scan that skipped a node without selector and a node with a seen key
C2_Witness ==
    /\ pc = "scan_done"
    /\ candidates # <<>>
    /\ \E p \in MustPositions : FirstTarget(p) = ""
    /\ \E p, q \in MustPositions : Before(q, p) /\ KeyAt(q) = KeyAt(p) /\ FirstTarget(p) # ""

\* C3: a candidate built from a violations or incomplete node has bucket
\* must_review, a candidate built from a passes node has bucket semantic_review
C3_BucketByOrigin ==
    \A cs \in CandidateLists : \A k \in 1..Len(cs) :
        \/ FromBucket(cs[k]) \in {"violations", "incomplete"} /\ cs[k].bucket = "must_review"
        \/ FromBucket(cs[k]) = "passes" /\ cs[k].bucket = "semantic_review"

C3_Witness ==
    /\ fs.candidates_json # None
    /\ \E j, k \in 1..Len(candidates) :
         /\ FromBucket(candidates[j]) = "incomplete"
         /\ FromBucket(candidates[k]) = "passes"

\* whether a tag is wcag followed by three digits, in any letter case
IsWcagTag(t) ==
    /\ Len(t) = 7
    /\ t[1] \in {"w", "W"} /\ t[2] \in {"c", "C"} /\ t[3] \in {"a", "A"} /\ t[4] \in {"g", "G"}
    /\ \A k \in 5..7 : t[k] \in Digits

TopicFromTags(tags) ==
    LET M == {k \in 1..Len(tags) : IsWcagTag(tags[k])}
        first == CHOOSE k \in M : \A j \in M : k <= j
    IN IF M = {}
       THEN <<"B","E","S","T","_","P","R","A","C","T","I","C","E">>
       ELSE <<"S","C","-", tags[first][5], ".", tags[first][6], ".", tags[first][7]>>

\* C4: the topic of a candidate is "SC-" and the dotted digits of the first tag of
\* its rule that is wcag<digit><digit><digit> in any case, and BEST_PRACTICE when
\* the rule has no such tag
C4_TopicFromFirstWcagTag ==
    \A cs \in CandidateLists : \A k \in 1..Len(cs) :
        cs[k].topic = TopicFromTags(axe_payload[FromBucket(cs[k])][FromRule(cs[k])].tags)

\* a candidate whose rule has a tag that does not match before an upper-case tag
\* that does, and a different matching tag after it
C4_Witness ==
    /\ pc = "scan_done"
    /\ \E k \in 1..Len(candidates) :
         LET tags == axe_payload[FromBucket(candidates[k])][FromRule(candidates[k])].tags
         IN /\ Len(tags) = 3
            /\ ~IsWcagTag(tags[1])
            /\ tags[2] = <<"W","C","A","G","2","4","4">>
            /\ tags[3] = <<"w","c","a","g","1","1","1">>
            /\ candidates[k].topic = <<"S","C","-","2",".","4",".","4">>

IsPromoted(c) == c.bucket = "semantic_review"

\* C5 as claimed: at most one promoted candidate per inspected rule id
C5_OnePerRuleId ==
    /\ \A id \in {"image-alt", "link-name"} :
         Cardinality({k \in 1..Len(candidates) :
                        IsPromoted(candidates[k]) /\ candidates[k].axe_rule_id = id}) <= 1
    /\ \A k \in 1..Len(candidates) :
         IsPromoted(candidates[k]) => candidates[k].axe_rule_id \in {"image-alt", "link-name"}

\* the candidates promoted from the passes rule entry r
PromotedFrom(cs, r) ==
    {k \in 1..Len(cs) : FromBucket(cs[k]) = "passes" /\ FromRule(cs[k]) = r}

\* C5, amended: at most one candidate is promoted from each rule entry of passes,
\* and only from entries whose rule id is image-alt or link-name
C5_OnePerRuleEntry ==
    \A cs \in CandidateLists :
        /\ \A r \in 1..Len(axe_payload.passes) : Cardinality(PromotedFrom(cs, r)) <= 1
        /\ \A k \in 1..Len(cs) :
             FromBucket(cs[k]) = "passes" => cs[k].axe_rule_id \in {"image-alt", "link-name"}

\* two entries of passes with the same rule id each promoted a node, one of them
\* from a rule with further nodes
C5_Witness ==
    /\ pc = "scan_done"
    /\ \E j, k \in 1..Len(candidates) :
         /\ IsPromoted(candidates[j]) /\ IsPromoted(candidates[k])
         /\ FromRule(candidates[j]) < FromRule(candidates[k])
         /\ candidates[j].axe_rule_id = candidates[k].axe_rule_id
         /\ FromNode(candidates[j]) < Len(axe_payload.passes[FromRule(candidates[j])].nodes)

PassSelector(r, n) ==
    IF Len(axe_payload.passes[r].nodes[n].target) = 0 THEN ""
    ELSE axe_payload.passes[r].nodes[n].target[1]

\* node n of passes rule r was inspected and meets the heuristic of the rule
Qualifies(r, n) ==
    /\ PassSelector(r, n) # ""
    /\ \E p \in probes : p.r = r /\ p.n = n /\ MeetsHeuristic(axe_payload.passes[r].id, p.e)

\* the keys held by the candidates created before the loop over passes rule r
KeysBefore(r) ==
    { CandKey(candidates[k]) : k \in { j \in 1..Len(candidates) :
         FromBucket(candidates[j]) # "passes" \/ FromRule(candidates[j]) < r } }

Unseen(r, n) == <<axe_payload.passes[r].id, PassSelector(r, n)>> \notin KeysBefore(r)

\* C6 as claimed: the promoted node is the earliest of the first 30 nodes that has
\* a selector and meets the heuristic
C6_FirstQualifyingNode ==
    \A k \in 1..Len(candidates) :
        FromBucket(candidates[k]) = "passes" =>
            LET r == FromRule(candidates[k])
                n == FromNode(candidates[k])
            IN /\ n <= 30
               /\ Qualifies(r, n)
               /\ \A m \in 1..(n - 1) : ~Qualifies(r, m)
               /\ Cardinality(PromotedFrom(candidates, r)) = 1

\* C6, amended: the promoted node is the earliest of the first 30 nodes that has a
\* selector, meets the heuristic and whose key no earlier candidate holds; no later
\* node of the rule is promoted, and a rule whose loop ended without a promotion
\* has no such node among its first 30
C6_FirstQualifyingUnseenNode ==
    /\ \A k \in 1..Len(candidates) :
         FromBucket(candidates[k]) = "passes" =>
            LET r == FromRule(candidates[k])
                n == FromNode(candidates[k])
            IN /\ n <= 30
               /\ Qualifies(r, n) /\ Unseen(r, n)
               /\ \A m \in 1..(n - 1) :
                    /\ ~(Qualifies(r, m) /\ Unseen(r, m))
                    /\ PassSelector(r, m) # "" => \E p \in probes : p.r = r /\ p.n = m
               /\ Cardinality(PromotedFrom(candidates, r)) = 1
    /\ \A r \in 1..Len(axe_payload.passes) :
         /\ axe_payload.passes[r].id \in {"image-alt", "link-name"}
         /\ pc # "scan_failed"
         /\ (pr > r \/ pc = "scan_done")
         /\ PromotedFrom(candidates, r) = {}
         => \A m \in 1..Len(axe_payload.passes[r].nodes) :
                m <= 30 => ~(Qualifies(r, m) /\ Unseen(r, m))

\* a node that meets the heuristic was passed over because its key was held, and
\* a later node of the same rule was promoted
C6_Witness ==
    /\ pc = "scan_done"
    /\ \E k \in 1..Len(candidates) :
         /\ FromBucket(candidates[k]) = "passes"
         /\ \E m \in 1..(FromNode(candidates[k]) - 1) :
              Qualifies(FromRule(candidates[k]), m) /\ ~Unseen(FromRule(candidates[k]), m)

---------------------------------------------------------------------------
(* Properties of the verdict adapter and the prompt compiler *)

FiveKeys == {"type", "verdict", "reason", "confidence", "techniques_used"}

\* live mode at a call: the switch is "1" and the credential is not empty
LiveMode(e) == e.A11Y_USE_LLM = "1" /\ e.OPENAI_API_KEY # None /\ e.OPENAI_API_KEY # ""

\* the text the adapter hands to the JSON parser
ParsedText(text) ==
    LET t == str_strip(text, Whitespace)
        opens == {k \in 1..Len(t) : t[k] = "{"}
        closes == {k \in 1..Len(t) : t[k] = "}"}
        s == CHOOSE k \in opens : \A j \in opens : k <= j
        e == CHOOSE k \in closes : \A j \in closes : k >= j
    IN IF opens # {} /\ closes # {} /\ e > s THEN SubSeq(t, s, e) ELSE t

\* a failure of the verdict call: the call raised, the text is no JSON, or the
\* parsed object lacks a required key
FailedCall(o) ==
    \/ o.kind = "APIConnectionError"
    \/ /\ o.kind = "content"
       /\ \/ ~json_loads(ParsedText(o.text)).ok
          \/ /\ json_loads(ParsedText(o.text)).data.jtype = "object"
             /\ ~(FiveKeys \subseteq DOMAIN json_loads(ParsedText(o.text)).data.obj)

IsFallbackVerdict(v) ==
    /\ v.jtype = "object"
    /\ DOMAIN v.obj = FiveKeys
    /\ v.obj.type = "informative"
    /\ v.obj.verdict = "needs-change"
    /\ v.obj.confidence = "0.4"
    /\ v.obj.techniques_used = <<"fallback">>
    /\ v.obj.reason \in { "LLM fallback (parse/error): APIConnectionError",
                          "LLM fallback (parse/error): JSONDecodeError",
                          "LLM fallback (parse/error): Missing key: confidence" }

\* C7: in live mode a verdict call that fails (the request raises, the response
\* text is no JSON, the parsed object lacks a required key) yields the fallback
\* verdict (informative, needs-change, 0.4, ["fallback"], a reason naming the
\* failure); the pass does not fail: the record with the fallback verdict is
\* appended and the loop moves on to the next candidate.
C7_FailureRecovered ==
    [][ ( /\ pc = "reviewing"
          /\ lastCall' # lastCall
          /\ LiveMode(lastCall'.env)
          /\ FailedCall(lastCall'.outcome) )
        => ( /\ IsFallbackVerdict(lastCall'.verdict)
             /\ pc' = "reviewing"
             /\ rv'.i = rv.i + 1
             /\ Len(rv'.results) = Len(rv.results) + 1
             /\ rv'.results[Len(rv'.results)].ai_verdict = lastCall'.verdict ) ]_vars

\* a pass completed although the call for its first candidate failed: the first
\* record carries the fallback verdict and a later candidate was reviewed
C7_Witness ==
    /\ pc = "review_done"
    /\ Len(fs.ai_verdicts) >= 2
    /\ IsFallbackVerdict(fs.ai_verdicts[1].ai_verdict)
    /\ fs.ai_verdicts[1].ai_verdict.obj.reason
         = "LLM fallback (parse/error): Missing key: confidence"
    /\ lastCall.made /\ LiveMode(lastCall.env) /\ lastCall.i >= 1

IsDemoVerdict(v) ==
    /\ v.jtype = "object"
    /\ DOMAIN v.obj = FiveKeys
    /\ v.obj.type = "informative"
    /\ v.obj.verdict = "needs-change"
    /\ v.obj.confidence = "0.5"
    /\ v.obj.techniques_used = <<"demo-only">>
    /\ v.obj.reason = "Demo verdict (no live LLM or A11Y_USE_LLM=0)."

\* C8: when the switch is not "1" or the credential is missing or empty, run_llm
\* returns the fixed demo verdict (informative, needs-change, 0.5, ["demo-only"])
\* and sends no request to the external verdict service.
C8_StubFixedVerdict ==
    (lastCall.made /\ ~LiveMode(lastCall.env))
        => (IsDemoVerdict(lastCall.verdict) /\ lastCall.requests = 0 /\ serviceCalls = 0)

\* the switch is on but the credential is empty, and two candidates got the demo verdict
C8_Witness ==
    /\ lastCall.made
    /\ lastCall.env.A11Y_USE_LLM = "1"
    /\ lastCall.env.OPENAI_API_KEY = ""
    /\ pc = "reviewing"
    /\ Len(rv.results) >= 2
    /\ \A k \in 1..Len(rv.results) : IsDemoVerdict(rv.results[k].ai_verdict)

\* the verdict records of the pass under way and of the verdicts artifact
StoredRecords ==
    (IF pc \in {"reviewing", "review_done"}
     THEN {rv.results[k] : k \in 1..Len(rv.results)} ELSE {})
    \cup (IF fs.ai_verdicts = None THEN {}
          ELSE {fs.ai_verdicts[k] : k \in 1..Len(fs.ai_verdicts)})

\* C9: every stored ai_verdict is a record with exactly the five keys type,
\* verdict, reason, confidence, techniques_used.
C9_ExactlyFiveKeys ==
    \A r \in StoredRecords :
        r.ai_verdict.jtype = "object" /\ DOMAIN r.ai_verdict.obj = FiveKeys

SameInputs(a, b) ==
    /\ a.template = b.template
    /\ a.sc = b.sc
    /\ a.tech_doc = b.tech_doc
    /\ a.c = b.c

---------------------------------------------------------------------------
(* Properties of the review pass *)

\* the tokens of tpl from k on are text, doubled braces and placeholders with one
\* of the eleven names
RECURSIVE WellFormedFrom(_, _)
WellFormedFrom(tpl, k) ==
    IF k > Len(tpl) THEN TRUE
    ELSE IF tpl[k] \in {"{", "}"}
    THEN IF k < Len(tpl) /\ tpl[k + 1] = tpl[k] THEN WellFormedFrom(tpl, k + 2)
         ELSE /\ tpl[k] = "{"
              /\ k + 2 <= Len(tpl)
              /\ tpl[k + 1] \in FmtNames
              /\ tpl[k + 2] = "}"
              /\ WellFormedFrom(tpl, k + 3)
    ELSE WellFormedFrom(tpl, k + 1)

\* the descriptive template-formatting error of build_prompt
TemplateFormattingError == [raised |-> TRUE, error |-> "RuntimeError"]

\* C11: build_prompt on a template with a placeholder outside the eleven names
\* (positional and empty ones included) or with an unescaped brace raises the
\* descriptive template-formatting error, and returns no prompt.
C11_DefectRaisesFormattingError ==
    \A k \in 1..Len(promptLog) :
        ~WellFormedFrom(promptLog[k].template, 1)
            => promptLog[k].out = TemplateFormattingError

\* the candidates of the running pass that are reviewed, not skipped
ReviewedIndexes ==
    {k \in 1..Len(rv.candidates) :
        ~(rv.skip_best_practice /\ rv.candidates[k].topic = BEST_PRACTICE)}

\* C12: ai_verdicts.json changes only by the one write that follows the last
\* candidate, and that write stores the complete record set of the running
\* pass; until then, and after a pass that aborts part-way, a reader sees the
\* artifact the previous pass left (or none).
C12_SingleCompleteWrite ==
    [][ fs'.ai_verdicts # fs.ai_verdicts
          => /\ pc = "reviewing"
             /\ rv.i = Len(rv.candidates)
             /\ Len(rv.results) = Cardinality(ReviewedIndexes)
             /\ fs'.ai_verdicts = rv.results
             /\ pc' = "review_done" ]_vars

\* a pass that built one prompt, then aborted on the edited template, with the
\* artifact of the earlier pass still in place
C12_Witness ==
    /\ pc = "review_failed"
    /\ Len(promptLog) = 2
    /\ ~promptLog[1].out.raised
    /\ promptLog[2].out.raised
    /\ fs.ai_verdicts # None
    /\ fs.ai_verdicts = PriorFiles.ai_verdicts

\* C13: with the candidates artifact, the template and the knowledge base
\* unchanged, the write that ends a second or later stub-mode pass leaves
\* ai_verdicts.json exactly as the first pass left it (the record set is
\* replaced, not extended), and no step of a review pass touches the state or
\* the files of the scan.
C13_StubRerunIdentical ==
    [][ /\ (pc = "reviewing" /\ pc' = "review_done" /\ passes_run >= 2 /\ ~LiveMode(env))
            => fs'.ai_verdicts = fs.ai_verdicts
        /\ UNCHANGED scanVars
        /\ fs'.candidates_json = fs.candidates_json
        /\ fs'.axe_nodes = fs.axe_nodes ]_vars

\* a second stub-mode pass has written its two records
C13_Witness ==
    /\ pc = "review_done"
    /\ passes_run = 2
    /\ ~LiveMode(env)
    /\ fs.ai_verdicts # None
    /\ Len(fs.ai_verdicts) = 2

SkipFlagOn == env.A11Y_SKIP_BEST_PRACTICE = "1"

\* the candidates of the artifact a pass has to emit a record for
RECURSIVE ToReview(_)
ToReview(cands) ==
    IF cands = <<>> THEN <<>>
    ELSE (IF SkipFlagOn /\ Head(cands).sc_list = <<>> THEN <<>> ELSE <<Head(cands)>>)
         \o ToReview(Tail(cands))

\* C14: a completed pass leaves in ai_verdicts.json one record, in order, for
\* each candidate of candidates.json, except that with the skip flag on the
\* candidates whose success-criteria list is empty get none; candidates.json
\* still holds every candidate it held when the pass loaded it.
C14_SkipFlagFiltersRecords ==
    pc = "review_done" =>
        LET expected == ToReview(fs.candidates_json)
        IN /\ Len(fs.ai_verdicts) = Len(expected)
           /\ \A k \in 1..Len(expected) :
                 /\ fs.ai_verdicts[k].selector = expected[k].selector
                 /\ fs.ai_verdicts[k].axe_rule_id = expected[k].axe_rule_id
           /\ fs.candidates_json = rv.candidates

\* a pass with the flag on that skipped one candidate and recorded the other
C14_Witness ==
    /\ pc = "review_done"
    /\ SkipFlagOn
    /\ Len(fs.candidates_json) = 2
    /\ Len(fs.ai_verdicts) = 1
    /\ \E k \in 1..2 : fs.candidates_json[k].sc_list = <<>>

\* C15: a review pass started on a directory without candidates.json ends at
\* once in FileNotFoundError; that step creates no prompts directory, writes
\* no prompt file, builds no prompt, calls no adapter and leaves
\* ai_verdicts.json as it was.
C15_MissingArtifactFailsFirst ==
    [][ (pc = "review_idle" /\ fs.candidates_json = None /\ passes_run' = passes_run + 1)
          => /\ pc' = "review_failed"
             /\ rv'.error = "FileNotFoundError"
             /\ fs' = fs
             /\ serviceCalls' = serviceCalls
             /\ promptLog' = promptLog
             /\ lastCall' = lastCall ]_vars

\* the pass has failed on an empty directory, which still has no prompts directory
C15_Witness ==
    /\ pc = "review_failed"
    /\ rv.error = "FileNotFoundError"
    /\ passes_run = 1
    /\ ~fs.prompts_dir
    /\ fs.ai_verdicts = None

\* C17: every run_llm call takes its mode from the environment as it is at
\* that call: live (one request to the service, no demo verdict) exactly when
\* the switch is "1" and the credential is not empty, stub (no request, the
\* demo verdict) otherwise, also when the environment changed after the
\* previous candidate; the call appends one record and leaves the records
\* already produced as they were.
C17_ModeDecidedPerCall ==
    [][ lastCall' # lastCall
          => /\ LiveMode(env) => /\ lastCall'.requests = 1
                                 /\ serviceCalls' = serviceCalls + 1
                                 /\ ~IsDemoVerdict(lastCall'.verdict)
             /\ ~LiveMode(env) => /\ lastCall'.requests = 0
                                  /\ serviceCalls' = serviceCalls
                                  /\ IsDemoVerdict(lastCall'.verdict)
             /\ Len(rv'.results) = Len(rv.results) + 1
             /\ SubSeq(rv'.results, 1, Len(rv.results)) = rv.results
             /\ rv'.results[Len(rv'.results)].ai_verdict = lastCall'.verdict ]_vars

\* the environment changed after the first candidate: the first record is a
\* stub verdict, the second came from a live call
C17_Witness ==
    /\ pc = "reviewing"
    /\ edits = 1
    /\ Len(rv.results) = 2
    /\ IsDemoVerdict(rv.results[1].ai_verdict)
    /\ ~IsDemoVerdict(rv.results[2].ai_verdict)
    /\ lastCall.requests = 1
    /\ LiveMode(env)

\* C18: no review pass ends in an error raised by technique retrieval.
C18_RetrievalNeverRaises == ~(pc = "review_failed" /\ rv.error = "TypeError")

\* the first balanced {...} span of a text from position k on, <<>> when none:
\* open is the position of the first "{" (0 before it), depth the open braces
RECURSIVE FirstBalancedFrom(_, _, _, _)
FirstBalancedFrom(t, k, open, depth) ==
    IF k > Len(t) THEN <<>>
    ELSE IF t[k] = "{"
    THEN FirstBalancedFrom(t, k + 1, IF open = 0 THEN k ELSE open, depth + 1)
    ELSE IF t[k] = "}" /\ open # 0
    THEN IF depth = 1 THEN SubSeq(t, open, k)
         ELSE FirstBalancedFrom(t, k + 1, open, depth - 1)
    ELSE FirstBalancedFrom(t, k + 1, open, depth)

\* C20: when the first balanced {...} span of the response is an object with
\* the five required keys, the adapter returns that object as the verdict,
\* whatever follows the span.
C20_FirstBalancedSpanParsed ==
    ( /\ lastCall.made
      /\ LiveMode(lastCall.env)
      /\ lastCall.outcome.kind = "content"
      /\ FirstBalancedFrom(lastCall.outcome.text, 1, 0, 0) = <<"{", "K", "}">> )
    => lastCall.verdict = JObject(Members("K"))

\* the diagnostics block of a candidate
DiagnosticsOf(c) ==
    << Str("\n\nAXE_DIAGNOSTICS:\n"),
       Json([ failureSummary |-> c.failureSummary, why_any |-> c.why_any,
              why_all |-> c.why_all, why_none |-> c.why_none, page_url |-> c.page_url ]) >>

C22_RecordKeepsCriteria ==
    pc = "review_done" =>
        \A k \in 1..Len(fs.ai_verdicts) :
            \A j \in 1..Len(fs.candidates_json) :
                fs.candidates_json[j].selector = fs.ai_verdicts[k].selector
                    => /\ fs.ai_verdicts[k].sc_list = fs.candidates_json[j].sc_list
                       /\ fs.candidates_json[j].sc_list # <<>>
                            => fs.ai_verdicts[k].SC = fs.candidates_json[j].sc_list[1]

---------------------------------------------------------------------------
(* Properties of the scan *)

\* C16: no failure of the page for a field of a candidate aborts the scan: the
\* scan never ends without writing candidates.json.
C16_ProviderFailureNeverAborts == pc # "scan_failed"

\* the nodes of the raw scan result: bucket, index of the rule, index of the node
AllNodeIds ==
    UNION { UNION { { <<b, ri, ni>> : ni \in 1..Len(axe_payload[b][ri].nodes) } :
                    ri \in 1..Len(axe_payload[b]) } :
            b \in {"violations", "incomplete", "passes"} }

BucketRank(b) == CASE b = "violations" -> 1 [] b = "incomplete" -> 2 [] b = "passes" -> 3

\* the node of record x comes before the node of record y in the scan result
NodeBefore(x, y) ==
    \/ BucketRank(x.bucket) < BucketRank(y.bucket)
    \/ /\ x.bucket = y.bucket
       /\ \/ x.html.r < y.html.r
          \/ x.html.r = y.html.r /\ x.html.n < y.html.n

\* the scan is past the writing of the node log
NodeLogWritten == pc \in {"must_review", "passes", "scan_done", "scan_failed"}

\* C19: the node log holds one record for every node of the raw scan result
\* and no other, a node without a target included, whose record has the empty
\* selector; the records follow the bucket order violations, incomplete,
\* passes and, within a bucket, the rule order and the node order.
C19_NodeLogComplete ==
    NodeLogWritten =>
        /\ Len(fs.axe_nodes) = Cardinality(AllNodeIds)
        /\ \A id \in AllNodeIds :
              \E k \in 1..Len(fs.axe_nodes) :
                LET rule == axe_payload[id[1]][id[2]]
                    node == rule.nodes[id[3]]
                    rec == fs.axe_nodes[k]
                IN /\ rec.bucket = id[1]
                   /\ rec.rule_id = rule.id
                   /\ rec.html = node.html
                   /\ rec.selector = (IF node.target = <<>> THEN "" ELSE node.target[1])
        /\ \A j, k \in 1..Len(fs.axe_nodes) :
              j < k => NodeBefore(fs.axe_nodes[j], fs.axe_nodes[k])

\* a log of three nodes from more than one bucket, one of them without a target
C19_Witness ==
    /\ NodeLogWritten
    /\ Len(fs.axe_nodes) = 3
    /\ \E k \in 1..3 : fs.axe_nodes[k].selector = ""
    /\ fs.axe_nodes[1].bucket # fs.axe_nodes[3].bucket

\* C23: navigation makes at most two goto calls; the first waits for network
\* idle with timeout_ms; a second is made exactly when the first timed out,
\* and it waits for the load event; a timeout of the first call does not end
\* the scan, which fails after it only when the second call fails too.
C23_OneRelaxedRetry ==
    LET a == page.attempts
    IN /\ Len(a) <= 2
       /\ (pc # "goto") = (Len(a) >= 1)
       /\ Len(a) >= 1 => /\ a[1].wait_until = "networkidle"
                          /\ a[1].timeout = page.timeout_ms
                          /\ (a[1].outcome = "TimeoutError")
                               = (Len(a) = 2 \/ pc = "goto_retry")
       /\ Len(a) = 2 => a[2].wait_until = "load"
       /\ (Len(a) >= 1 /\ a[1].outcome = "TimeoutError" /\ pc = "scan_failed")
            => (Len(a) = 2 /\ a[2].outcome # "ok")

\* the first call timed out at the default timeout, the retry loaded the page
C23_Witness ==
    /\ pc = "nodes_log"
    /\ Len(page.attempts) = 2
    /\ page.timeout_ms = DefaultTimeout
    /\ page.attempts[1].outcome = "TimeoutError"
    /\ page.attempts[2].outcome = "ok"

\* the box padded by 2 px on each side, cut to the image
PaddedInImage(box, im) ==
    [ left |-> Max(0, box.x - 2), top |-> Max(0, box.y - 2),
      right |-> Min(im.width, box.x + box.width + 2),
      bottom |-> Min(im.height, box.y + box.height + 2) ]

\* C24: crop_element_screenshot raises nothing; it saves no screenshot when
\* the element or its box is absent or the padded box cut to the image has no
\* width or no height, and otherwise it crops exactly the padded box cut to
\* the image.
C24_CropIsPaddedBoxInImage ==
    page.shot.called =>
        /\ ~page.shot.raised
        /\ IF ~page.el.found THEN page.shot.clip = NoneRec
           ELSE IF page.el.box = NoneRec THEN page.shot.clip = NoneRec
           ELSE LET r == PaddedInImage(page.el.box, page.im)
                IN IF r.right <= r.left \/ r.bottom <= r.top
                   THEN page.shot.clip = NoneRec
                   ELSE page.shot.clip = r

\* C25: after a completed pass the prompts directory holds one file per record
\* of ai_verdicts.json, each with the text whose hash the record carries, and
\* no other file.
C25_OnePromptFilePerRecord ==
    pc = "review_done" =>
        /\ Cardinality(fs.prompts) = Len(fs.ai_verdicts)
        /\ \A f \in fs.prompts :
              \E k \in 1..Len(fs.ai_verdicts) :
                fs.ai_verdicts[k].prompt_hash = [sha256_16 |-> f.text]
====
